---- MODULE Spec2Model ----
(***************************************************************************)
(* Statement ingestion and transaction reconciliation of the tracker       *)
(* repository: the value normalizers, transaction identity and duplicate   *)
(* removal, the upload route handler, the upload page and the storage      *)
(* helper upsertTransactions.                                              *)
(*                                                                         *)
(* Strings are sequences of one-character strings, so that trimming, case  *)
(* folding, pattern matching and concatenation are computed character by   *)
(* character.  JavaScript's null and undefined are the one-element         *)
(* sequences Null and Undefined, whose element is no single character.     *)
(* An optional number is <<>> (null / undefined) or <<n>>; amounts are     *)
(* counted in hundredths so that two decimal places stay exact.            *)
(***************************************************************************)
EXTENDS Integers, Sequences, FiniteSets, TLC

VARIABLES
    parsedData,     \* upload page: rows of the parsed file
    mapping,        \* upload page: column mapping, a sequence of <<csvColumn, dbColumn>>
    uploadResult,   \* upload page: last result shown to the user
    req,            \* request body in flight to the upload route (NoRequest when none)
    pc,             \* route handler: "idle", "posted", "upserting", "responded"
    nMapped,        \* route handler: number of rows the map callback has run on
    transformed,    \* route handler: transformedTransactions
    batch,          \* argument the handler passed to upsertTransactions
    chunkIdx,       \* upsertTransactions: index of the chunk being inserted
    insertedIds,    \* upsertTransactions: ids returned by the successful chunks
    lastError,      \* upsertTransactions: error of the last failing chunk
    sent,           \* records handed to the table's insert for this request
    db,             \* the transactions table, in insertion order
    resp,           \* response of the route handler (NoResponse while none)
    txns,           \* library call: the transaction list given to the function
    out1,           \* library call: removeDuplicates(txns)
    out2,           \* library call: removeDuplicates(removeDuplicates(txns))
    ids,            \* library call: getTransactionIdentifier of txns[1], txns[2]
    dup,            \* library call: areTransactionsDuplicate(txns[1], txns[2])
    step,           \* library call: which calls have returned
    tIn,            \* map callback call: the row and the mapping it is run on
    tOut,           \* map callback call: its result, <<>> for null
    gIn,            \* grouping call: the transactions given to the function
    gThreshold,     \* grouping call: similarityThreshold as <<numerator, denominator>>
    gOut,           \* grouping call: the DisplayTransaction list returned
    fIn,            \* function call: the argument given to the function
    fOut,           \* function call: its result
    fOut2,          \* function call: the result of the second call
    tagsTable,      \* transactions table: tags column, transaction id -> tags
    data,           \* transactions table component: the rows of the last fetch
    page,           \* transactions table component: the page shown
    selectedRows,   \* transactions table component: set of selected ids
    pendingUpdates, \* updateTransactionTags requests in flight
    bulk,           \* bulk Add Tag: its progress and what it started from
    selectedFile,   \* upload page: the file selected last (<<>> when none)
    reads,          \* upload page: file parses in flight, in the order started
    parseErrors,    \* upload page: parse errors shown
    parsing         \* upload page: the parsing flag

vars == <<parsedData, mapping, uploadResult, req, pc, nMapped, transformed, batch,
          chunkIdx, insertedIds, lastError, sent, db, resp,
          txns, out1, out2, ids, dup, step, tIn, tOut, gIn, gThreshold, gOut,
          fIn, fOut, fOut2, tagsTable, data, page, selectedRows, pendingUpdates, bulk,
          selectedFile, reads, parseErrors, parsing>>

appVars == <<parsedData, mapping, uploadResult, req, pc, nMapped, transformed, batch,
             chunkIdx, insertedIds, lastError, sent, db, resp>>

funVars == <<fIn, fOut, fOut2>>

tagVars == <<tagsTable, data, page, selectedRows, pendingUpdates, bulk>>

fileVars == <<selectedFile, reads, parseErrors, parsing>>

extVars == <<fIn, fOut, fOut2, tagsTable, data, page, selectedRows, pendingUpdates, bulk,
             selectedFile, reads, parseErrors, parsing>>

callVars == <<tIn, tOut, gIn, gThreshold, gOut>>

libVars == <<txns, out1, out2, ids, dup, step, tIn, tOut, gIn, gThreshold, gOut,
             fIn, fOut, fOut2, tagsTable, data, page, selectedRows, pendingUpdates, bulk,
             selectedFile, reads, parseErrors, parsing>>

----------------------------------------------------------------------------
(* JavaScript values                                                       *)

Null == <<"null">>

Undefined == <<"undefined">>

\* !v for a string-or-null value: null, undefined and "" are falsy.
Falsy(v) == v = Null \/ v = Undefined \/ v = <<>>

IsWhitespace(c) == c = " "

RECURSIVE TrimStart(_)
TrimStart(s) ==
    IF s # <<>> /\ IsWhitespace(Head(s)) THEN TrimStart(Tail(s)) ELSE s

RECURSIVE TrimEnd(_)
TrimEnd(s) ==
    IF s # <<>> /\ IsWhitespace(s[Len(s)]) THEN TrimEnd(SubSeq(s, 1, Len(s) - 1)) ELSE s

\* String.prototype.trim
Trim(s) == TrimEnd(TrimStart(s))

UpperLetters ==
    <<"A", "B", "C", "D", "E", "F", "G", "H", "I", "J", "K", "L", "M",
      "N", "O", "P", "Q", "R", "S", "T", "U", "V", "W", "X", "Y", "Z">>

LowerLetters ==
    <<"a", "b", "c", "d", "e", "f", "g", "h", "i", "j", "k", "l", "m",
      "n", "o", "p", "q", "r", "s", "t", "u", "v", "w", "x", "y", "z">>

LowerChar(c) ==
    IF \E k \in 1..26 : UpperLetters[k] = c
    THEN LowerLetters[CHOOSE k \in 1..26 : UpperLetters[k] = c]
    ELSE c

\* String.prototype.toLowerCase
ToLowerCase(s) == [k \in 1..Len(s) |-> LowerChar(s[k])]

DigitChar(d) ==
    CASE d = 0 -> "0" [] d = 1 -> "1" [] d = 2 -> "2" [] d = 3 -> "3" [] d = 4 -> "4"
      [] d = 5 -> "5" [] d = 6 -> "6" [] d = 7 -> "7" [] d = 8 -> "8" [] OTHER -> "9"

RECURSIVE NatDigits(_)
NatDigits(n) ==
    IF n < 10 THEN <<DigitChar(n)>> ELSE Append(NatDigits(n \div 10), DigitChar(n % 10))

\* String(x) of a number x given in hundredths h: "500", "500.5", "-0.25".
NumberToString(h) ==
    LET a == IF h < 0 THEN -h ELSE h
        fp == a % 100
        frac == IF fp = 0 THEN <<>>
                ELSE IF fp % 10 = 0 THEN <<".", DigitChar(fp \div 10)>>
                ELSE <<".", DigitChar(fp \div 10), DigitChar(fp % 10)>>
    IN  (IF h < 0 THEN <<"-">> ELSE <<>>) \o NatDigits(a \div 100) \o frac

----------------------------------------------------------------------------
(* Value normalizers (lib/csv-parser)                                      *)

IsDigit(c) == c \in {"0", "1", "2", "3", "4", "5", "6", "7", "8", "9"}

IsDateSeparator(c) == c = "-" \/ c = "/"

DigitValue(c) == CHOOSE d \in 0..9 : DigitChar(d) = c

\* s[i .. i+n-1] exists and holds digits only.
DigitsAt(s, i, n) == i + n - 1 <= Len(s) /\ \A k \in i..(i + n - 1) : IsDigit(s[k])

\* The ways <digits>{r1}[-/]<digits>{r2}[-/]<digits>{r3} matches s: the start and
\* the three group lengths.
PatternMatches(s, r1, r2, r3) ==
    {m \in (1..Len(s)) \X r1 \X r2 \X r3 :
        /\ DigitsAt(s, m[1], m[2])
        /\ m[1] + m[2] <= Len(s) /\ IsDateSeparator(s[m[1] + m[2]])
        /\ DigitsAt(s, m[1] + m[2] + 1, m[3])
        /\ m[1] + m[2] + 1 + m[3] <= Len(s) /\ IsDateSeparator(s[m[1] + m[2] + 1 + m[3]])
        /\ DigitsAt(s, m[1] + m[2] + m[3] + 2, m[4])}

\* The match a backtracking engine reports: leftmost start, then each group as long
\* as possible, earlier groups first.
Preferred(m, n) ==
    \/ m[1] < n[1]
    \/ m[1] = n[1] /\ m[2] > n[2]
    \/ m[1] = n[1] /\ m[2] = n[2] /\ m[3] > n[3]
    \/ m[1] = n[1] /\ m[2] = n[2] /\ m[3] = n[3] /\ m[4] >= n[4]

\* str.match(pattern): <<>> when there is no match, else <<group1, group2, group3>>.
RegexMatch(s, r1, r2, r3) ==
    LET ms == PatternMatches(s, r1, r2, r3)
    IN  IF ms = {} THEN <<>>
        ELSE LET m == CHOOSE x \in ms : \A y \in ms : Preferred(x, y)
                 g2 == m[1] + m[2] + 1
                 g3 == g2 + m[3] + 1
             IN  <<SubSeq(s, m[1], m[1] + m[2] - 1),
                   SubSeq(s, g2, g2 + m[3] - 1),
                   SubSeq(s, g3, g3 + m[4] - 1)>>

\* String.prototype.padStart(2, "0")
PadStart2(s) == IF Len(s) >= 2 THEN s ELSE IF Len(s) = 1 THEN <<"0">> \o s ELSE <<"0", "0">>

RECURSIVE ParseInt(_)
ParseInt(s) == IF s = <<>> THEN 0 ELSE 10 * ParseInt(SubSeq(s, 1, Len(s) - 1)) + DigitValue(s[Len(s)])

\* The body of the pattern loop for a match g of pattern number p (0, 1 or 2).
DateFromMatch(g, p) ==
    IF Len(g[3]) = 4
    THEN IF p = 0
         THEN g[3] \o <<"-">> \o PadStart2(g[2]) \o <<"-">> \o PadStart2(g[1])
         ELSE g[1] \o <<"-">> \o PadStart2(g[2]) \o <<"-">> \o PadStart2(g[3])
    ELSE LET day == PadStart2(g[1])
             month == PadStart2(g[2])
             year == IF ParseInt(g[3]) <= 30 THEN <<"2", "0">> \o g[3] ELSE <<"1", "9">> \o g[3]
         IN  year \o <<"-">> \o month \o <<"-">> \o day

normalizeDate(dateStr) ==
    IF Falsy(dateStr) THEN Null
    ELSE LET str == Trim(dateStr)
             m0 == RegexMatch(str, 1..2, 1..2, {4})
             m1 == RegexMatch(str, {4}, 1..2, 1..2)
             m2 == RegexMatch(str, 1..2, 1..2, {2})
         IN  IF str = <<>> THEN Null
             ELSE IF m0 # <<>> THEN DateFromMatch(m0, 0)
             ELSE IF m1 # <<>> THEN DateFromMatch(m1, 1)
             ELSE IF m2 # <<>> THEN DateFromMatch(m2, 2)
             ELSE Null

IsAmountChar(c) == IsDigit(c) \/ c = "." \/ c = "-"

\* str.replace(/[...,\s]/g, "").replace(/[^\d.-]/g, ""): the first replace removes
\* only characters the second removes too, so what is left is the digits, dots and
\* minus signs of s.
RECURSIVE KeepAmountChars(_)
KeepAmountChars(s) ==
    IF s = <<>> THEN <<>>
    ELSE IF IsAmountChar(Head(s)) THEN <<Head(s)>> \o KeepAmountChars(Tail(s))
    ELSE KeepAmountChars(Tail(s))

RECURSIVE LeadingDigits(_)
LeadingDigits(s) ==
    IF s # <<>> /\ IsDigit(Head(s)) THEN <<Head(s)>> \o LeadingDigits(Tail(s)) ELSE <<>>

\* parseFloat of a string of digits, dots and minus signs: <<>> for NaN, else <<h>>
\* with h the value in hundredths (the inputs carry at most two decimals).
ParseFloat(c) ==
    LET neg == c # <<>> /\ Head(c) = "-"
        body == IF neg THEN Tail(c) ELSE c
        ip == LeadingDigits(body)
        rest == SubSeq(body, Len(ip) + 1, Len(body))
        fr == IF rest # <<>> /\ Head(rest) = "." THEN LeadingDigits(Tail(rest)) ELSE <<>>
        f2 == SubSeq(fr \o <<"0", "0">>, 1, 2)
        mag == 100 * ParseInt(ip) + ParseInt(f2)
    IN  IF ip = <<>> /\ fr = <<>> THEN <<>> ELSE <<IF neg THEN -mag ELSE mag>>

normalizeAmount(amountStr) ==
    IF Falsy(amountStr) THEN 0
    ELSE LET str == Trim(amountStr)
             cleaned == KeepAmountChars(str)
             num == ParseFloat(cleaned)
         IN  IF str = <<>> \/ str = <<"-">> THEN 0
             ELSE IF num = <<>> THEN 0 ELSE num[1]

----------------------------------------------------------------------------
(* Transaction identity and duplicate removal (lib/duplicate-detection)    *)

\* transaction.withdrawal_amt || transaction.deposit_amt || 0
HashAmount(t) ==
    IF t.withdrawal_amt # <<>> /\ t.withdrawal_amt[1] # 0 THEN t.withdrawal_amt[1]
    ELSE IF t.deposit_amt # <<>> /\ t.deposit_amt[1] # 0 THEN t.deposit_amt[1]
    ELSE 0

\* `${date}|${narration}|${amount}`
HashString(t) ==
    LET date == IF Falsy(t.date) THEN <<>> ELSE t.date
        narration == ToLowerCase(Trim(IF Falsy(t.narration) THEN <<>> ELSE t.narration))
        amount == NumberToString(HashAmount(t))
    IN  date \o <<"|">> \o narration \o <<"|">> \o amount

\* crypto sha256 hex digest, taken as injective: the digest stands for its preimage.
Sha256Hex(s) == s

generateTransactionHash(t) == Sha256Hex(HashString(t))

GetIdentifierNoTrim(t) ==
    IF ~Falsy(t.ref_no) /\ Trim(t.ref_no) # <<>>
    THEN <<"r", "e", "f", ":">> \o t.ref_no
    ELSE <<"h", "a", "s", "h", ":">> \o generateTransactionHash(t)

getTransactionIdentifier(t) ==
    IF ~Falsy(t.ref_no) /\ Trim(t.ref_no) # <<>>
    THEN <<"r", "e", "f", ":">> \o Trim(t.ref_no)
    ELSE <<"h", "a", "s", "h", ":">> \o generateTransactionHash(t)

AreDuplicateNoTrim(a, b) ==
    IF ~Falsy(a.ref_no) /\ ~Falsy(b.ref_no)
    THEN a.ref_no = b.ref_no
    ELSE generateTransactionHash(a) = generateTransactionHash(b)

areTransactionsDuplicate(a, b) ==
    IF ~Falsy(a.ref_no) /\ ~Falsy(b.ref_no)
    THEN Trim(a.ref_no) = Trim(b.ref_no)
    ELSE generateTransactionHash(a) = generateTransactionHash(b)

\* The loop of removeDuplicates from element k on, with the set seen and the list
\* unique built so far.
RECURSIVE RemoveDuplicatesFrom(_, _, _, _)
RemoveDuplicatesFrom(ts, k, seen, unique) ==
    IF k > Len(ts) THEN unique
    ELSE LET identifier == getTransactionIdentifier(ts[k])
         IN  IF identifier \notin seen
             THEN RemoveDuplicatesFrom(ts, k + 1, seen \cup {identifier}, Append(unique, ts[k]))
             ELSE RemoveDuplicatesFrom(ts, k + 1, seen, unique)

\* A removeDuplicates that overwrites the kept element by a later duplicate.
RECURSIVE RemoveDuplicatesKeepLastFrom(_, _, _)
RemoveDuplicatesKeepLastFrom(ts, k, unique) ==
    IF k > Len(ts) THEN unique
    ELSE LET identifier == getTransactionIdentifier(ts[k])
             hit == {j \in 1..Len(unique) : getTransactionIdentifier(unique[j]) = identifier}
         IN  IF hit = {}
             THEN RemoveDuplicatesKeepLastFrom(ts, k + 1, Append(unique, ts[k]))
             ELSE RemoveDuplicatesKeepLastFrom(ts, k + 1,
                      [j \in 1..Len(unique) |-> IF j \in hit THEN ts[k] ELSE unique[j]])

RemoveDuplicatesKeepLast(ts) == RemoveDuplicatesKeepLastFrom(ts, 1, <<>>)

\* A removeDuplicates that never records the identifiers it has seen.
RemoveDuplicatesForgetful(ts) == ts

\* A removeDuplicates that builds its result with unshift instead of push.
RECURSIVE RemoveDuplicatesUnshiftFrom(_, _, _, _)
RemoveDuplicatesUnshiftFrom(ts, k, seen, unique) ==
    IF k > Len(ts) THEN unique
    ELSE LET identifier == getTransactionIdentifier(ts[k])
         IN  IF identifier \notin seen
             THEN RemoveDuplicatesUnshiftFrom(ts, k + 1, seen \cup {identifier}, <<ts[k]>> \o unique)
             ELSE RemoveDuplicatesUnshiftFrom(ts, k + 1, seen, unique)

RemoveDuplicatesUnshift(ts) == RemoveDuplicatesUnshiftFrom(ts, 1, {}, <<>>)

\* A removeDuplicates that splices duplicates out of the array it is iterating by
\* index, so that the element after a removed one is never examined.
RECURSIVE RemoveDuplicatesSpliceFrom(_, _, _)
RemoveDuplicatesSpliceFrom(arr, k, seen) ==
    IF k > Len(arr) THEN arr
    ELSE LET identifier == getTransactionIdentifier(arr[k])
         IN  IF identifier \in seen
             THEN RemoveDuplicatesSpliceFrom(
                      SubSeq(arr, 1, k - 1) \o SubSeq(arr, k + 1, Len(arr)), k + 1, seen)
             ELSE RemoveDuplicatesSpliceFrom(arr, k + 1, seen \cup {identifier})

RemoveDuplicatesSplice(ts) == RemoveDuplicatesSpliceFrom(ts, 1, {})

removeDuplicates(ts) == RemoveDuplicatesFrom(ts, 1, {}, <<>>)

----------------------------------------------------------------------------
(* Upload route handler: validation and transformation (POST)              *)

\* Object.values(mapping).filter(col => col !== "skip" && col !== null)
MappedDbColumns(m) == {m[k][2] : k \in {j \in 1..Len(m) : m[j][2] # "skip" /\ m[j][2] # "null"}}

\* A validation that asks for either required column instead of both.
HasRequiredEither(m) == "date" \in MappedDbColumns(m) \/ "narration" \in MappedDbColumns(m)

\* hasDate && hasNarration of the route handler
HasRequiredMappings(m) == "date" \in MappedDbColumns(m) /\ "narration" \in MappedDbColumns(m)

\* row[csvColumn], and for undefined the value under a key equal to csvColumn up to
\* letter case.
CellValue(row, csvColumn) ==
    IF csvColumn \in DOMAIN row /\ row[csvColumn] # Undefined THEN row[csvColumn]
    ELSE LET keys == {key \in DOMAIN row : ToLowerCase(key) = ToLowerCase(csvColumn)}
         IN  IF keys = {} THEN Undefined ELSE row[CHOOSE key \in keys : TRUE]

\* The Partial<TransactionInsert> the map callback starts from: no field set.
EmptyTransaction ==
    [date |-> Undefined, value_date |-> Undefined, narration |-> Undefined,
     ref_no |-> Undefined, withdrawal_amt |-> <<>>, deposit_amt |-> <<>>,
     closing_balance |-> <<>>, category |-> "", tags |-> <<>>]

\* normalizeDate(value) || undefined, normalizeDate(value) || null
OrElse(v, w) == IF Falsy(v) THEN w ELSE v

\* One round of the forEach over the mapping's entries: the switch on dbColumn.
ApplyEntry(t, row, entry) ==
    LET dbColumn == entry[2]
        value == CellValue(row, entry[1])
    IN  CASE dbColumn = "date" -> [t EXCEPT !.date = OrElse(normalizeDate(value), Undefined)]
          [] dbColumn = "value_date" -> [t EXCEPT !.value_date = OrElse(normalizeDate(value), Null)]
          [] dbColumn = "narration" -> [t EXCEPT !.narration = Trim(OrElse(value, <<>>))]
          [] dbColumn = "ref_no" ->
                 [t EXCEPT !.ref_no = IF Falsy(value) THEN Null ELSE Trim(value)]
          [] dbColumn = "withdrawal_amt" -> [t EXCEPT !.withdrawal_amt = <<normalizeAmount(value)>>]
          [] dbColumn = "deposit_amt" -> [t EXCEPT !.deposit_amt = <<normalizeAmount(value)>>]
          [] dbColumn = "closing_balance" ->
                 [t EXCEPT !.closing_balance =
                     IF normalizeAmount(value) = 0 THEN <<>> ELSE <<normalizeAmount(value)>>]
          [] OTHER -> t

RECURSIVE ApplyMapping(_, _, _, _)
ApplyMapping(t, row, m, k) ==
    IF k > Len(m) THEN t ELSE ApplyMapping(ApplyEntry(t, row, m[k]), row, m, k + 1)

\* The defaults set after the forEach.
WithDefaults(t) ==
    [t EXCEPT !.withdrawal_amt = IF @ = <<>> THEN <<0>> ELSE @,
              !.deposit_amt = IF @ = <<>> THEN <<0>> ELSE @,
              !.category = IF @ = "" THEN "Uncategorized" ELSE @]

\* The map callback without the check of the required fields.
TransformRowUnchecked(row, m) ==
    <<WithDefaults(ApplyMapping(EmptyTransaction, row, m, 1))>>

\* The map callback: <<>> for a row it returns null for, else <<transaction>>.
TransformRow(row, m) ==
    LET t == WithDefaults(ApplyMapping(EmptyTransaction, row, m, 1))
    IN  IF Falsy(t.date) \/ Falsy(t.narration) THEN <<>> ELSE <<t>>

\* transactions.map(...).filter(txn => txn !== null)
RECURSIVE TransformAll(_, _)
TransformAll(rows, m) ==
    IF rows = <<>> THEN <<>> ELSE TransformRow(Head(rows), m) \o TransformAll(Tail(rows), m)

----------------------------------------------------------------------------
(* Inputs the upload page and the route handler are run on                 *)

\* Rows and records one run may hold in the page and the table together.
MaxStored == 3

\* chunkSize of upsertTransactions (1000 in the source), scaled to the runs.
ChunkSize == 1

KDate == <<"d", "a", "t", "e">>

KDateCap == <<"D", "a", "t", "e">>

KNarration == <<"n", "a", "r">>

KRef == <<"r", "e", "f">>

KWithdrawal == <<"w", "d">>

KDeposit == <<"d", "e", "p">>

Row(d, n, w, p) == (KDate :> d) @@ (KNarration :> n) @@ (KWithdrawal :> w) @@ (KDeposit :> p)

\* Parsed rows: two that share a ref_no up to padding, two without a usable ref_no
\* that agree on date, narration up to case and padding, and amount, and one
\* without a date.
RowPool ==
    { Row(<<"0", "5", "-", "1", "1", "-", "2", "0", "2", "4">>, <<"A", "t", "m">>,
          <<"5", "0", "0">>, <<>>) @@ (KRef :> <<"R">>),
      Row(<<"5", "/", "1", "1", "/", "2", "4">>, <<" ", "p", "o", "s">>,
          <<"-">>, <<"R", "s", " ", "1", ",", "5", "0", "0", ".", "5", "0">>)
          @@ (KRef :> <<" ", "R", " ">>),
      Row(<<"2", "0", "2", "4", "/", "1", "1", "/", "0", "5">>, <<"A", "t", "m">>,
          <<"5", "0", "0">>, <<>>),
      Row(<<"2", "0", "2", "4", "-", "1", "1", "-", "0", "5">>, <<" ", "a", "t", "m", " ">>,
          <<"0">>, <<"5", "0", "0", ".", "0">>) @@ (KRef :> <<" ">>),
      Row(<<"n", "/", "a">>, <<"A", "t", "m">>, <<"5", "0", "0">>, <<>>) @@ (KRef :> <<"Q">>) }

\* Column mappings, as the entries of the mapping object in key order: two with both
\* required columns, two without.
MappingPool ==
    { << <<KDate, "date">>, <<KNarration, "narration">>, <<KRef, "ref_no">>,
         <<KWithdrawal, "withdrawal_amt">>, <<KDeposit, "deposit_amt">> >>,
      << <<KDateCap, "date">>, <<KRef, "narration">>, <<KNarration, "skip">>,
         <<KDeposit, "closing_balance">>, <<KDate, "value_date">> >>,
      << <<KDate, "date">>, <<KNarration, "skip">>, <<KRef, "ref_no">> >>,
      << <<KNarration, "narration">>, <<KDate, "null">>, <<KDeposit, "deposit_amt">> >> }

\* Error messages a failing insert of a chunk may carry.
InsertErrorMessages == {"", "insert failed"}

NoRequest == [via |-> "none", transactionsIsArray |-> FALSE, transactions |-> <<>>,
              mappingIsObject |-> FALSE, mapping |-> <<>>]

NoResponse == [status |-> 0, success |-> FALSE, error |-> "", message |-> "",
               details |-> "", hasDetails |-> FALSE, uploaded |-> -1, total |-> -1,
               duplicates |-> -1]

NoError == [isError |-> FALSE, message |-> ""]

NoResult == [shown |-> FALSE, success |-> FALSE, message |-> "", uploaded |-> -1,
             duplicates |-> -1]

ErrorResponse(status, error, message) ==
    [NoResponse EXCEPT !.status = status, !.error = error, !.message = message]

SeqsUpTo(S, n) == UNION {[1..k -> S] : k \in 0..n}

AppIdle ==
    /\ parsedData = <<>> /\ mapping = <<>> /\ uploadResult = NoResult
    /\ req = NoRequest /\ pc = "idle" /\ nMapped = 0 /\ transformed = <<>>
    /\ batch = <<>> /\ chunkIdx = 0 /\ insertedIds = <<>> /\ lastError = NoError
    /\ sent = <<>> /\ db = <<>> /\ resp = NoResponse

FunIdle == fIn = <<>> /\ fOut = <<>> /\ fOut2 = <<>>

TagsIdle ==
    /\ tagsTable = <<>> /\ data = <<>> /\ page = 0 /\ selectedRows = {}
    /\ pendingUpdates = {} /\ bulk = <<>>

FilesIdle == selectedFile = <<>> /\ reads = <<>> /\ parseErrors = <<>> /\ parsing = FALSE

ExtIdle == FunIdle /\ TagsIdle /\ FilesIdle

CallsIdle ==
    /\ tIn = <<>> /\ tOut = <<>> /\ gIn = <<>> /\ gThreshold = <<>> /\ gOut = <<>>
    /\ ExtIdle

LibIdle ==
    /\ txns = <<>> /\ out1 = <<>> /\ out2 = <<>> /\ ids = <<>> /\ dup = FALSE
    /\ step = "none"
    /\ CallsIdle

----------------------------------------------------------------------------
(* Upload page (app/upload/page.tsx)                                       *)

\* handleFileSelect, with the parser's result rows: the page state is reset and the
\* rows are stored.  The page is used while no request is in flight, and a file is
\* selected on a page that holds no rows (a fresh page, or one reset by a successful
\* upload).
HandleFileSelect ==
    /\ pc = "idle"
    /\ parsedData = <<>>
    /\ \E rows \in SeqsUpTo(RowPool, MaxStored - Len(db)) : parsedData' = rows
    /\ mapping' = <<>>
    /\ uploadResult' = NoResult
    /\ UNCHANGED <<req, pc, nMapped, transformed, batch, chunkIdx, insertedIds,
                   lastError, sent, db, resp>>

\* handleMappingChange, called by the column mapping shown once rows are parsed.
HandleMappingChange ==
    /\ pc = "idle"
    /\ parsedData # <<>>
    /\ \E m \in MappingPool : mapping' = m
    /\ UNCHANGED <<parsedData, uploadResult, req, pc, nMapped, transformed, batch,
                   chunkIdx, insertedIds, lastError, sent, db, resp>>

\* Object.values(mapping).includes("date") && ...includes("narration") of the page
PageHasRequired(m) ==
    /\ \E k \in 1..Len(m) : m[k][2] = "date"
    /\ \E k \in 1..Len(m) : m[k][2] = "narration"

\* handleUpload up to its fetch: the two early returns, or the request is sent.
HandleUpload ==
    /\ pc = "idle"
    /\ IF parsedData = <<>> \/ mapping = <<>>
       THEN /\ uploadResult' = [NoResult EXCEPT !.shown = TRUE,
                  !.message = "Please parse a file and map columns before uploading"]
            /\ UNCHANGED <<req, pc>>
       ELSE IF ~PageHasRequired(mapping)
       THEN /\ uploadResult' = [NoResult EXCEPT !.shown = TRUE,
                  !.message = "Date and Narration columns are required"]
            /\ UNCHANGED <<req, pc>>
       ELSE /\ Len(parsedData) + Len(db) <= MaxStored
            /\ uploadResult' = NoResult
            /\ req' = [via |-> "page", transactionsIsArray |-> TRUE,
                       transactions |-> parsedData, mappingIsObject |-> TRUE,
                       mapping |-> mapping]
            /\ pc' = "posted"
    /\ UNCHANGED <<parsedData, mapping, nMapped, transformed, batch, chunkIdx,
                   insertedIds, lastError, sent, db, resp>>

\* Bodies another HTTP client posts to the route, which sends what the page would
\* refuse to send as well: no array of transactions, no mapping object, no rows, a
\* mapping without the required columns.
DirectBodies ==
    LET rowLists == {<<>>} \cup {<<r>> : r \in RowPool}
    IN  [via : {"direct"}, transactionsIsArray : {TRUE}, transactions : rowLists,
         mappingIsObject : {TRUE}, mapping : MappingPool \cup {<<>>}]
        \cup [via : {"direct"}, transactionsIsArray : {FALSE}, transactions : {<<>>},
              mappingIsObject : {TRUE}, mapping : MappingPool]
        \cup [via : {"direct"}, transactionsIsArray : {TRUE}, transactions : rowLists,
              mappingIsObject : {FALSE}, mapping : {<<>>}]

\* The other client posts while the page is fresh.
DirectPost ==
    /\ pc = "idle"
    /\ parsedData = <<>> /\ uploadResult = NoResult
    /\ \E body \in DirectBodies :
          /\ Len(body.transactions) + Len(db) <= MaxStored
          /\ req' = body
    /\ pc' = "posted"
    /\ UNCHANGED <<parsedData, mapping, uploadResult, nMapped, transformed, batch,
                   chunkIdx, insertedIds, lastError, sent, db, resp>>

----------------------------------------------------------------------------
(* Upload route handler and upsertTransactions                             *)

Respond(r) ==
    /\ resp' = r
    /\ pc' = "responded"

\* POST from the request to its first await: the checks of the body, the
\* transformation of every row, removeDuplicates, and the call of
\* upsertTransactions up to the insert of the first chunk.
PostReceive ==
    /\ pc = "posted"
    /\ IF ~req.transactionsIsArray
       THEN /\ Respond(ErrorResponse(400, "Invalid transactions data", ""))
            /\ UNCHANGED <<nMapped, transformed, batch, chunkIdx>>
       ELSE IF ~req.mappingIsObject
       THEN /\ Respond(ErrorResponse(400, "Invalid column mapping", ""))
            /\ UNCHANGED <<nMapped, transformed, batch, chunkIdx>>
       ELSE IF ~HasRequiredMappings(req.mapping)
       THEN /\ Respond(ErrorResponse(400, "Date and Narration columns are required. Please map at least one CSV column to 'date' and one to 'narration'.", ""))
            /\ UNCHANGED <<nMapped, transformed, batch, chunkIdx>>
       ELSE LET transformedTransactions == TransformAll(req.transactions, req.mapping)
                uniqueTransactions == removeDuplicates(transformedTransactions)
            IN  /\ nMapped' = Len(req.transactions)
                /\ transformed' = transformedTransactions
                /\ IF transformedTransactions = <<>>
                   THEN /\ Respond(ErrorResponse(400, "No valid transactions to upload", ""))
                        /\ UNCHANGED <<batch, chunkIdx>>
                   ELSE /\ batch' = uniqueTransactions
                        /\ chunkIdx' = 1
                        /\ pc' = "upserting"
                        /\ UNCHANGED resp
    /\ UNCHANGED <<parsedData, mapping, uploadResult, req, insertedIds, lastError, sent, db>>

\* chunks.length of upsertTransactions
NumChunks(ts) == (Len(ts) + ChunkSize - 1) \div ChunkSize

\* transactions.slice(i, i + chunkSize) for the k-th chunk
Chunk(ts, k) ==
    SubSeq(ts, (k - 1) * ChunkSize + 1,
           IF k * ChunkSize < Len(ts) THEN k * ChunkSize ELSE Len(ts))

\* A handler that reports success whenever some chunk was inserted.
ResponseForLenient(error) ==
    IF error.isError /\ insertedIds = <<>>
    THEN [NoResponse EXCEPT !.status = 500, !.error = "Failed to upload transactions",
             !.message = IF error.message # "" THEN error.message
                         ELSE "Database error occurred",
             !.details = error.message, !.hasDetails = TRUE]
    ELSE [NoResponse EXCEPT !.status = 200, !.success = TRUE,
             !.uploaded = Len(batch), !.total = Len(transformed),
             !.duplicates = Len(transformed) - Len(batch)]

\* A handler that counts every record built as uploaded.
ResponseForCountsBuilt(error) ==
    IF error.isError
    THEN [NoResponse EXCEPT !.status = 500, !.error = "Failed to upload transactions",
             !.message = IF error.message # "" THEN error.message
                         ELSE "Database error occurred",
             !.details = error.message, !.hasDetails = TRUE]
    ELSE [NoResponse EXCEPT !.status = 200, !.success = TRUE,
             !.uploaded = Len(transformed), !.total = Len(transformed),
             !.duplicates = Len(transformed) - Len(batch)]

\* The handler after upsertTransactions has returned {data, error}.
ResponseFor(error) ==
    IF error.isError
    THEN [NoResponse EXCEPT !.status = 500, !.error = "Failed to upload transactions",
             !.message = IF error.message # "" THEN error.message
                         ELSE "Database error occurred",
             !.details = error.message, !.hasDetails = TRUE]
    ELSE [NoResponse EXCEPT !.status = 200, !.success = TRUE,
             !.uploaded = Len(batch), !.total = Len(transformed),
             !.duplicates = Len(transformed) - Len(batch)]

\* The loop of upsertTransactions has run through every chunk and the function has
\* returned.
UpsertReturned == batch # <<>> /\ chunkIdx > NumChunks(batch)

\* The value upsertTransactions returns after its loop: with an error, the ids
\* collected or null when there are none; without, the ids collected.
\* data is given as [isNull, ids], ids being <<>> for null.
UpsertResult ==
    [data |-> IF lastError.isError
              THEN IF Len(insertedIds) > 0
                   THEN [isNull |-> FALSE, ids |-> insertedIds]
                   ELSE [isNull |-> TRUE, ids |-> <<>>]
              ELSE [isNull |-> FALSE, ids |-> insertedIds],
     error |-> lastError]

\* A loop that returns at the first failing chunk.
AfterChunkStopsAtError(error) ==
    IF error.isError
    THEN /\ chunkIdx' = NumChunks(batch) + 1
         /\ Respond(ResponseFor(error))
    ELSE /\ chunkIdx' = chunkIdx + 1
         /\ IF chunkIdx < NumChunks(batch)
            THEN UNCHANGED <<pc, resp>>
            ELSE Respond(ResponseFor(error))

\* The loop of upsertTransactions goes on to the next chunk, or it is past the last
\* one: the function returns and the handler answers.
AfterChunk(error) ==
    /\ chunkIdx' = chunkIdx + 1
    /\ IF chunkIdx < NumChunks(batch)
       THEN UNCHANGED <<pc, resp>>
       ELSE Respond(ResponseFor(error))

\* A loop in which a successful insert forgets the error of an earlier chunk.
InsertChunkOkClearsError ==
    /\ pc = "upserting"
    /\ LET chunk == Chunk(batch, chunkIdx)
       IN  /\ sent' = sent \o chunk
           /\ db' = db \o chunk
           /\ insertedIds' = insertedIds \o [k \in 1..Len(chunk) |-> Len(db) + k]
    /\ lastError' = NoError
    /\ AfterChunk(NoError)
    /\ UNCHANGED <<parsedData, mapping, uploadResult, req, nMapped, transformed, batch>>

\* The insert of the current chunk succeeds: the table stores its records and
\* returns their ids.
InsertChunkOk ==
    /\ pc = "upserting"
    /\ LET chunk == Chunk(batch, chunkIdx)
       IN  /\ sent' = sent \o chunk
           /\ db' = db \o chunk
           /\ insertedIds' = insertedIds \o [k \in 1..Len(chunk) |-> Len(db) + k]
    /\ AfterChunk(lastError)
    /\ UNCHANGED <<parsedData, mapping, uploadResult, req, nMapped, transformed, batch,
                   lastError>>

\* The insert of the current chunk returns an error: nothing of it is stored.
InsertChunkError ==
    /\ pc = "upserting"
    /\ sent' = sent \o Chunk(batch, chunkIdx)
    /\ \E msg \in InsertErrorMessages :
          /\ lastError' = [isError |-> TRUE, message |-> msg]
          /\ AfterChunk([isError |-> TRUE, message |-> msg])
    /\ UNCHANGED <<parsedData, mapping, uploadResult, req, nMapped, transformed, batch,
                   insertedIds, db>>

\* The awaited insert rejects: the handler's catch answers.
InsertChunkThrows ==
    /\ pc = "upserting"
    /\ sent' = sent \o Chunk(batch, chunkIdx)
    /\ Respond(ErrorResponse(500, "Failed to upload transactions to database",
                             "Unknown database error"))
    /\ UNCHANGED <<parsedData, mapping, uploadResult, req, nMapped, transformed, batch,
                   chunkIdx, insertedIds, lastError, db>>

\* The response reaches its client and the request is over.  handleUpload after its
\* fetch: the result is shown, and after a success the page is reset.
Deliver ==
    /\ pc = "responded"
    /\ IF req.via = "page"
       THEN IF resp.status = 200 /\ resp.success
            THEN /\ uploadResult' = [shown |-> TRUE, success |-> TRUE,
                                     message |-> "Successfully uploaded",
                                     uploaded |-> resp.uploaded,
                                     duplicates |-> resp.duplicates]
                 /\ parsedData' = <<>>
                 /\ mapping' = <<>>
            ELSE /\ uploadResult' = [NoResult EXCEPT !.shown = TRUE,
                                        !.message = IF resp.error # "" THEN resp.error
                                                    ELSE "Failed to upload transactions"]
                 /\ UNCHANGED <<parsedData, mapping>>
       ELSE UNCHANGED <<parsedData, mapping, uploadResult>>
    /\ req' = NoRequest
    /\ resp' = NoResponse
    /\ pc' = "idle"
    /\ nMapped' = 0
    /\ transformed' = <<>>
    /\ batch' = <<>>
    /\ chunkIdx' = 0
    /\ insertedIds' = <<>>
    /\ lastError' = NoError
    /\ sent' = <<>>
    /\ UNCHANGED db

Init == AppIdle /\ LibIdle

Next ==
    \/ HandleFileSelect
    \/ HandleMappingChange
    \/ HandleUpload
    \/ DirectPost
    \/ PostReceive
    \/ InsertChunkOk
    \/ InsertChunkError
    \/ InsertChunkThrows
    \/ Deliver

Spec == Init /\ [][Next /\ UNCHANGED libVars]_vars

----------------------------------------------------------------------------
(* Library calls: the duplicate-detection functions applied to inputs      *)

MaxLen == 3

D1 == <<"2", "0", "2", "4", "-", "0", "1", "-", "1", "0">>

D2 == <<"2", "0", "2", "4", "-", "0", "1", "-", "1", "1">>

TxnDates == {D1, D2}

TxnNarrations == {<<"a", "t", "m">>, <<" ", "A", "T", "M", " ">>, <<"a", "|", "5">>}

TxnRefs == {Null, <<>>, <<" ">>, <<"R">>, <<" ", "R", " ">>, <<"r">>}

TxnWithdrawals == {<<>>, <<0>>, <<50000>>}

TxnDeposits == {<<0>>, <<50000>>, <<550>>}

\* TransactionInput values the pair functions are applied to.
TxnUniverse ==
    [date : TxnDates, narration : TxnNarrations, ref_no : TxnRefs,
     withdrawal_amt : TxnWithdrawals, deposit_amt : TxnDeposits]

Txn(d, n, r, w, p) ==
    [date |-> d, narration |-> n, ref_no |-> r, withdrawal_amt |-> w, deposit_amt |-> p]

\* TransactionInput values the lists given to removeDuplicates are built from.
TxnPool ==
    { Txn(D1, <<"a", "t", "m">>, Null, <<50000>>, <<0>>),
      Txn(D1, <<" ", "A", "T", "M", " ">>, <<" ">>, <<0>>, <<50000>>),
      Txn(D1, <<"a", "t", "m">>, <<"R">>, <<50000>>, <<0>>),
      Txn(D2, <<"a", "|", "5">>, <<" ", "R", " ">>, <<>>, <<550>>),
      Txn(D2, <<"a", "t", "m">>, Null, <<50000>>, <<0>>),
      Txn(D1, <<"a", "t", "m">>, <<"r">>, <<50000>>, <<0>>) }

InitDedup ==
    /\ AppIdle
    /\ txns \in SeqsUpTo(TxnPool, MaxLen)
    /\ out1 = <<>> /\ out2 = <<>> /\ ids = <<>> /\ dup = FALSE
    /\ step = "start"
    /\ CallsIdle

CallRemoveDuplicates ==
    /\ step = "start"
    /\ out1' = removeDuplicates(txns)
    /\ step' = "once"
    /\ UNCHANGED <<txns, out2, ids, dup>>
    /\ UNCHANGED callVars
    /\ UNCHANGED extVars
    /\ UNCHANGED appVars

CallRemoveDuplicatesAgain ==
    /\ step = "once"
    /\ out2' = removeDuplicates(out1)
    /\ step' = "twice"
    /\ UNCHANGED <<txns, out1, ids, dup>>
    /\ UNCHANGED callVars
    /\ UNCHANGED extVars
    /\ UNCHANGED appVars

NextDedup == CallRemoveDuplicates \/ CallRemoveDuplicatesAgain

SpecDedup == InitDedup /\ [][NextDedup]_vars

InitIdentity ==
    /\ AppIdle
    /\ txns \in [1..2 -> TxnUniverse]
    /\ out1 = <<>> /\ out2 = <<>> /\ ids = <<>> /\ dup = FALSE
    /\ step = "start"
    /\ CallsIdle

CallGetTransactionIdentifier ==
    /\ step = "start"
    /\ ids' = <<getTransactionIdentifier(txns[1]), getTransactionIdentifier(txns[2])>>
    /\ step' = "identified"
    /\ UNCHANGED <<txns, out1, out2, dup>>
    /\ UNCHANGED callVars
    /\ UNCHANGED extVars
    /\ UNCHANGED appVars

CallAreTransactionsDuplicate ==
    /\ step = "identified"
    /\ dup' = areTransactionsDuplicate(txns[1], txns[2])
    /\ step' = "compared"
    /\ UNCHANGED <<txns, out1, out2, ids>>
    /\ UNCHANGED callVars
    /\ UNCHANGED extVars
    /\ UNCHANGED appVars

NextIdentity == CallGetTransactionIdentifier \/ CallAreTransactionsDuplicate

SpecIdentity == InitIdentity /\ [][NextIdentity]_vars

----------------------------------------------------------------------------
(* Library calls: the map callback of the route handler applied to a row   *)

\* Cells of a date column: day first, two-digit year, year first, a day the month
\* does not have, no date, empty.
DateCells ==
    { <<"0", "5", "-", "1", "1", "-", "2", "0", "2", "4">>,
      <<"5", "/", "1", "1", "/", "2", "4">>,
      <<"2", "0", "2", "4", "-", "1", "1", "-", "0", "5">>,
      <<"3", "1", "-", "0", "2", "-", "2", "0", "2", "4">>,
      <<"n", "/", "a">>,
      <<>> }

NarrationCells == {<<"A", "t", "m">>, <<" ">>}

\* Cells of an amount column: plain, signed, with currency and separators, a dash,
\* bracketed, empty.
AmountCells ==
    { <<"5", "0", "0">>,
      <<"-", "5", "0", "0">>,
      <<"R", "s", " ", "1", ",", "5", "0", "0", ".", "5", "0">>,
      <<"-">>,
      <<"(", "2", "5", ".", "5", ")">>,
      <<>> }

\* The mappings the handler lets through to the map callback.
AcceptedMappings == {m \in MappingPool : HasRequiredMappings(m)}

InitTransform ==
    /\ AppIdle
    /\ txns = <<>> /\ out1 = <<>> /\ out2 = <<>> /\ ids = <<>> /\ dup = FALSE
    /\ step = "start"
    /\ tIn \in [row : {Row(d, n, w, p) : d \in DateCells, n \in NarrationCells,
                                         w \in AmountCells, p \in AmountCells},
                mapping : AcceptedMappings]
    /\ tOut = <<>> /\ gIn = <<>> /\ gThreshold = <<>> /\ gOut = <<>>
    /\ ExtIdle

\* The map callback runs on the row; a record it returns is what the handler hands
\* on to removeDuplicates and to storage.
CallMapCallback ==
    /\ step = "start"
    /\ tOut' = TransformRow(tIn.row, tIn.mapping)
    /\ step' = "transformed"
    /\ UNCHANGED <<txns, out1, out2, ids, dup, tIn, gIn, gThreshold, gOut>>
    /\ UNCHANGED extVars
    /\ UNCHANGED appVars

NextTransform == CallMapCallback

SpecTransform == InitTransform /\ [][NextTransform]_vars

----------------------------------------------------------------------------
(* Transaction grouping (lib/transaction-grouping)                         *)

\* The word w stands in s from position i on.
StartsWithAt(s, i, w) == i + Len(w) - 1 <= Len(s) /\ SubSeq(s, i, i + Len(w) - 1) = w

\* replace(/\s+/g, " ")
RECURSIVE CollapseWhitespace(_)
CollapseWhitespace(s) ==
    IF s = <<>> THEN <<>>
    ELSE IF IsWhitespace(Head(s))
         THEN <<" ">> \o CollapseWhitespace(TrimStart(s))
         ELSE <<Head(s)>> \o CollapseWhitespace(Tail(s))

\* upi|neft|imps|rtgs|atm|pos|card|online|payment|transfer
LeadingTokens ==
    { <<"u", "p", "i">>, <<"n", "e", "f", "t">>, <<"i", "m", "p", "s">>,
      <<"r", "t", "g", "s">>, <<"a", "t", "m">>, <<"p", "o", "s">>,
      <<"c", "a", "r", "d">>, <<"o", "n", "l", "i", "n", "e">>,
      <<"p", "a", "y", "m", "e", "n", "t">>, <<"t", "r", "a", "n", "s", "f", "e", "r">> }

\* payment|transfer|transaction|ref|ref no|refno
TrailingTokens ==
    { <<"p", "a", "y", "m", "e", "n", "t">>, <<"t", "r", "a", "n", "s", "f", "e", "r">>,
      <<"t", "r", "a", "n", "s", "a", "c", "t", "i", "o", "n">>, <<"r", "e", "f">>,
      <<"r", "e", "f", " ", "n", "o">>, <<"r", "e", "f", "n", "o">> }

\* replace(/^(upi|...|transfer)\s*/i, ""): no token is a prefix of another, so at
\* most one alternative matches at the start.
StripLeadingToken(s) ==
    LET found == {w \in LeadingTokens : StartsWithAt(s, 1, w)}
    IN  IF found = {} THEN s
        ELSE LET w == CHOOSE x \in found : TRUE
             IN  TrimStart(SubSeq(s, Len(w) + 1, Len(s)))

\* replace(/\s*(payment|...|refno).*$/i, ""): the leftmost match starts at the
\* whitespace before the first place a token stands, and takes the rest of s.
StripTrailingSuffix(s) ==
    LET at == {i \in 1..Len(s) : \E w \in TrailingTokens : StartsWithAt(s, i, w)}
    IN  IF at = {} THEN s
        ELSE LET first == CHOOSE i \in at : \A j \in at : i <= j
             IN  TrimEnd(SubSeq(s, 1, first - 1))

normalizeNarration(narration) ==
    Trim(StripTrailingSuffix(StripLeadingToken(CollapseWhitespace(Trim(ToLowerCase(narration))))))

Min3(a, b, c) == IF a <= b /\ a <= c THEN a ELSE IF b <= c THEN b ELSE c

\* Row i of the matrix from row i - 1 (prev, indexed from 1 for column 0), for the
\* character c of str2: the cells j..Len(str1), the cells before them being row.
RECURSIVE LevenshteinRow(_, _, _, _, _)
LevenshteinRow(prev, c, str1, j, row) ==
    IF j > Len(str1) THEN row
    ELSE LevenshteinRow(prev, c, str1, j + 1,
             Append(row, IF c = str1[j] THEN prev[j]
                         ELSE Min3(prev[j] + 1, row[j] + 1, prev[j + 1] + 1)))

\* The last row of the matrix after the rows of str2[i..].
RECURSIVE LevenshteinRows(_, _, _, _)
LevenshteinRows(prev, str1, str2, i) ==
    IF i > Len(str2) THEN prev
    ELSE LevenshteinRows(LevenshteinRow(prev, str2[i], str1, 1, <<prev[1] + 1>>),
                         str1, str2, i + 1)

levenshteinDistance(str1, str2) ==
    LevenshteinRows([j \in 1..(Len(str1) + 1) |-> j - 1], str1, str2, 1)[Len(str1) + 1]

\* The quotient distance / longer.length as <<numerator, denominator>>; 1.0 is <<1, 1>>.
stringSimilarity(str1, str2) ==
    LET longer == IF Len(str1) > Len(str2) THEN str1 ELSE str2
        shorter == IF Len(str1) > Len(str2) THEN str2 ELSE str1
    IN  IF Len(longer) = 0 THEN <<1, 1>>
        ELSE <<levenshteinDistance(ToLowerCase(longer), ToLowerCase(shorter)), Len(longer)>>

\* similarity <= similarityThreshold, both quotients with positive denominators
WithinThreshold(similarity, threshold) ==
    similarity[1] * threshold[2] <= threshold[1] * similarity[2]

\* A total that is the amount of the last member only.
LastWithdrawal(members) ==
    IF members = <<>> THEN 0 ELSE members[Len(members)].withdrawal_amt

\* txns.reduce((sum, t) => sum + (t.withdrawal_amt || 0), 0)
RECURSIVE TotalWithdrawal(_)
TotalWithdrawal(members) ==
    IF members = <<>> THEN 0
    ELSE TotalWithdrawal(SubSeq(members, 1, Len(members) - 1))
             + members[Len(members)].withdrawal_amt

\* txns.reduce((sum, t) => sum + (t.deposit_amt || 0), 0)
RECURSIVE TotalDeposit(_)
TotalDeposit(members) ==
    IF members = <<>> THEN 0
    ELSE TotalDeposit(SubSeq(members, 1, Len(members) - 1))
             + members[Len(members)].deposit_amt

\* txns[txns.length - 1]?.closing_balance || null, an absent balance being <<>>
LatestBalance(members) ==
    LET balance == members[Len(members)].closing_balance
    IN  IF balance = <<>> \/ balance[1] = 0 THEN <<>> ELSE balance

\* A key that is the year and month of the date.
DateKeyByMonth(txn) ==
    IF Falsy(txn.date) THEN <<"u", "n", "k", "n", "o", "w", "n">>
    ELSE SubSeq(txn.date, 1, 7)

\* txn.date || "unknown"
DateKey(txn) ==
    IF Falsy(txn.date) THEN <<"u", "n", "k", "n", "o", "w", "n">> ELSE txn.date

\* The keys of the Map groups in the order they were set.
RECURSIVE DateKeysFrom(_, _, _)
DateKeysFrom(ts, k, keys) ==
    IF k > Len(ts) THEN keys
    ELSE DateKeysFrom(ts, k + 1,
             IF \E j \in 1..Len(keys) : keys[j] = DateKey(ts[k]) THEN keys
             ELSE Append(keys, DateKey(ts[k])))

\* groups.get(dateKey) after the first forEach
DateBucket(ts, dateKey) == SelectSeq(ts, LAMBDA txn : DateKey(txn) = dateKey)

\* `${txns.length} transaction${txns.length !== 1 ? "s" : ""}`
CountNarration(n) ==
    NatDigits(n) \o <<" ", "t", "r", "a", "n", "s", "a", "c", "t", "i", "o", "n">>
        \o (IF n # 1 THEN <<"s">> ELSE <<>>)

\* The GroupedTransaction pushed for one entry of the Map.
DateGroup(date, members) ==
    [id |-> <<"g", "r", "o", "u", "p", "-", "d", "a", "t", "e", "-">> \o date,
     date |-> date,
     narration |-> CountNarration(Len(members)),
     withdrawal_amt |-> TotalWithdrawal(members),
     deposit_amt |-> TotalDeposit(members),
     closing_balance |-> LatestBalance(members),
     count |-> Len(members),
     transactions |-> members,
     isGroup |-> TRUE]

\* grouped of groupByDate before the sort
DateGroups(ts) ==
    LET keys == DateKeysFrom(ts, 1, <<>>)
    IN  [k \in 1..Len(keys) |-> DateGroup(keys[k], DateBucket(ts, keys[k]))]

\* new Date(date).getTime() for a date-only string: <<>> is NaN, and the number
\* given for YYYY-MM-DD grows with the day it names.
DateTime(date) ==
    IF /\ Len(date) = 10
       /\ \A k \in {1, 2, 3, 4, 6, 7, 9, 10} : IsDigit(date[k])
       /\ date[5] = "-" /\ date[8] = "-"
       /\ ParseInt(SubSeq(date, 6, 7)) \in 1..12
       /\ ParseInt(SubSeq(date, 9, 10)) \in 1..31
    THEN <<372 * ParseInt(SubSeq(date, 1, 4)) + 31 * ParseInt(SubSeq(date, 6, 7))
             + ParseInt(SubSeq(date, 9, 10))>>
    ELSE <<>>

\* The sign of the comparator's result dateB - dateA; NaN counts as 0 in a sort.
CompareByDate(a, b) ==
    LET dateA == DateTime(a.date)
        dateB == DateTime(b.date)
    IN  IF dateA = <<>> \/ dateB = <<>> THEN 0
        ELSE IF dateB[1] > dateA[1] THEN 1
        ELSE IF dateB[1] < dateA[1] THEN -1 ELSE 0

\* The comparator orders the elements consistently: equal elements compare alike
\* with every third one, and the order is transitive.
ConsistentComparator(list) ==
    \A i, j, k \in 1..Len(list) :
        /\ CompareByDate(list[i], list[j]) = 0 =>
               CompareByDate(list[i], list[k]) = CompareByDate(list[j], list[k])
        /\ (CompareByDate(list[i], list[j]) < 0 /\ CompareByDate(list[j], list[k]) < 0) =>
               CompareByDate(list[i], list[k]) < 0

\* x put behind the elements of sorted that do not belong after it.
InsertByDate(sorted, x) ==
    LET after == {k \in 1..Len(sorted) : CompareByDate(sorted[k], x) > 0}
        at == IF after = {} THEN Len(sorted) + 1
              ELSE CHOOSE k \in after : \A j \in after : k <= j
    IN  SubSeq(sorted, 1, at - 1) \o <<x>> \o SubSeq(sorted, at, Len(sorted))

RECURSIVE StableSortByDate(_, _, _)
StableSortByDate(list, k, sorted) ==
    IF k > Len(list) THEN sorted
    ELSE StableSortByDate(list, k + 1, InsertByDate(sorted, list[k]))

Reorderings(list) ==
    {[k \in 1..Len(list) |-> list[f[k]]] :
        f \in {g \in [1..Len(list) -> 1..Len(list)] :
                  \A i, j \in 1..Len(list) : g[i] = g[j] => i = j}}

\* The arrays Array.prototype.sort may return with the comparator of the grouping
\* functions: the stable sort when the comparator is consistent, else an order the
\* implementation chooses.
SortByDateDescending(list) ==
    IF ConsistentComparator(list) THEN {StableSortByDate(list, 1, <<>>)}
    ELSE Reorderings(list)

\* The results groupByDate may return.
groupByDate(ts) == SortByDateDescending(DateGroups(ts))

\* The inner forEach of groupByNarration from transactions[j] on: the group and the
\* processed ids after it.
RECURSIVE SimilarFrom(_, _, _, _, _, _)
SimilarFrom(ts, j, normalized, threshold, processed, group) ==
    IF j > Len(ts) THEN [group |-> group, processed |-> processed]
    ELSE IF ts[j].id \in processed
         THEN SimilarFrom(ts, j + 1, normalized, threshold, processed, group)
         ELSE LET otherNormalized == normalizeNarration(ts[j].narration)
                  similarity == stringSimilarity(normalized, otherNormalized)
              IN  IF WithinThreshold(similarity, threshold)
                  THEN SimilarFrom(ts, j + 1, normalized, threshold,
                                   processed \cup {ts[j].id}, Append(group, ts[j]))
                  ELSE SimilarFrom(ts, j + 1, normalized, threshold, processed, group)

\* An inner loop that adds the similar transactions without marking them processed.
RECURSIVE SimilarUnmarkedFrom(_, _, _, _, _, _)
SimilarUnmarkedFrom(ts, j, normalized, threshold, processed, group) ==
    IF j > Len(ts) THEN [group |-> group, processed |-> processed]
    ELSE IF ts[j].id \in processed \/ \E k \in 1..Len(group) : group[k].id = ts[j].id
         THEN SimilarUnmarkedFrom(ts, j + 1, normalized, threshold, processed, group)
         ELSE LET otherNormalized == normalizeNarration(ts[j].narration)
                  similarity == stringSimilarity(normalized, otherNormalized)
              IN  IF WithinThreshold(similarity, threshold)
                  THEN SimilarUnmarkedFrom(ts, j + 1, normalized, threshold, processed,
                                           Append(group, ts[j]))
                  ELSE SimilarUnmarkedFrom(ts, j + 1, normalized, threshold, processed, group)

RECURSIVE ClustersUnmarkedFrom(_, _, _, _, _)
ClustersUnmarkedFrom(ts, k, threshold, processed, groups) ==
    IF k > Len(ts) THEN groups
    ELSE IF ts[k].id \in processed
         THEN ClustersUnmarkedFrom(ts, k + 1, threshold, processed, groups)
         ELSE LET found == SimilarUnmarkedFrom(ts, 1, normalizeNarration(ts[k].narration),
                                               threshold, processed \cup {ts[k].id}, <<ts[k]>>)
              IN  ClustersUnmarkedFrom(ts, k + 1, threshold, found.processed,
                                       Append(groups, found.group))

NarrationClustersUnmarked(ts, threshold) == ClustersUnmarkedFrom(ts, 1, threshold, {}, <<>>)

\* The outer forEach of groupByNarration from transactions[k] on: groups after it.
RECURSIVE ClustersFrom(_, _, _, _, _)
ClustersFrom(ts, k, threshold, processed, groups) ==
    IF k > Len(ts) THEN groups
    ELSE IF ts[k].id \in processed
         THEN ClustersFrom(ts, k + 1, threshold, processed, groups)
         ELSE LET found == SimilarFrom(ts, 1, normalizeNarration(ts[k].narration),
                                       threshold, processed \cup {ts[k].id}, <<ts[k]>>)
              IN  ClustersFrom(ts, k + 1, threshold, found.processed,
                               Append(groups, found.group))

\* groups of groupByNarration after the first forEach
NarrationClusters(ts, threshold) == ClustersFrom(ts, 1, threshold, {}, <<>>)

\* `${commonNarration} (${txns.length} similar)`
SimilarNarration(commonNarration, n) ==
    commonNarration \o <<" ", "(">> \o NatDigits(n)
        \o <<" ", "s", "i", "m", "i", "l", "a", "r", ")">>

\* What the second forEach pushes for one group: the transaction itself, or a
\* GroupedTransaction.
NarrationElement(members) ==
    IF Len(members) = 1 THEN members[1]
    ELSE [id |-> <<"g", "r", "o", "u", "p", "-", "n", "a", "r", "r", "a", "t", "i", "o",
                   "n", "-">> \o members[1].id,
          date |-> members[1].date,
          narration |-> SimilarNarration(members[1].narration, Len(members)),
          withdrawal_amt |-> TotalWithdrawal(members),
          deposit_amt |-> TotalDeposit(members),
          closing_balance |-> LatestBalance(members),
          count |-> Len(members),
          transactions |-> members,
          isGroup |-> TRUE]

\* The results groupByNarration may return.
groupByNarration(ts, threshold) ==
    LET groups == NarrationClusters(ts, threshold)
    IN  SortByDateDescending([k \in 1..Len(groups) |-> NarrationElement(groups[k])])

----------------------------------------------------------------------------
(* Library calls: the grouping functions applied to transaction lists      *)

\* Transactions one list given to a grouping function holds at most.
MaxGrouped == 3

G1 == <<"2", "0", "2", "4", "-", "0", "3", "-", "0", "1">>

G2 == <<"2", "0", "2", "4", "-", "0", "3", "-", "0", "2">>

G3 == <<"2", "0", "2", "3", "-", "1", "2", "-", "3", "1">>

GTxn(i, d, n, w, p, b) ==
    [id |-> i, date |-> d, narration |-> n, withdrawal_amt |-> w, deposit_amt |-> p,
     closing_balance |-> b]

\* Stored transactions, each with its own id: narrations close to one another and
\* not, narrations that are nothing but a transaction-type token, two of them
\* identical, a missing date, closing balances of 0 and absent ones.
GroupPool ==
    { GTxn(<<"1">>, G1, <<"U", "b", "e", "r">>, 10000, 0, <<50000>>),
      GTxn(<<"2">>, G1, <<"U", "b", "e", "x">>, 0, 25000, <<0>>),
      GTxn(<<"3">>, G2, <<"u", "b", "y", "x">>, 30050, 0, <<>>),
      GTxn(<<"4">>, <<>>, <<"U", "P", "I">>, 5000, 0, <<70000>>),
      GTxn(<<"5">>, G3, <<"A", "T", "M", " ">>, 0, 7500, <<0>>),
      GTxn(<<"6">>, G2, <<"U", "P", "I", " ", " ", "U", "b", "e", "r", " ", "R", "e", "f", " ", "9">>,
           2500, 0, <<90000>>),
      GTxn(<<"7">>, G3, <<"Z", "o", "m", "a", "t", "o">>, 0, 0, <<1>>),
      GTxn(<<"8">>, G1, <<"U", "P", "I">>, 1200, 0, <<80000>>) }

\* similarityThreshold: the default 0.3, 0 and 1.
Thresholds == {<<3, 10>>, <<0, 1>>, <<1, 1>>}

\* Lists of up to n transactions of the pool without a repeated id.
DistinctLists(n) ==
    {ts \in SeqsUpTo(GroupPool, n) : \A i, j \in 1..Len(ts) : ts[i] = ts[j] => i = j}

InitGroup ==
    /\ AppIdle
    /\ txns = <<>> /\ out1 = <<>> /\ out2 = <<>> /\ ids = <<>> /\ dup = FALSE
    /\ step = "start"
    /\ tIn = <<>> /\ tOut = <<>>
    /\ gIn \in DistinctLists(MaxGrouped)
    /\ gThreshold \in Thresholds
    /\ gOut = <<>>
    /\ ExtIdle

CallGroupByDate ==
    /\ step = "start"
    /\ gOut' \in groupByDate(gIn)
    /\ step' = "byDate"
    /\ UNCHANGED <<txns, out1, out2, ids, dup, tIn, tOut, gIn, gThreshold>>
    /\ UNCHANGED extVars
    /\ UNCHANGED appVars

CallGroupByNarration ==
    /\ step = "start"
    /\ gOut' \in groupByNarration(gIn, gThreshold)
    /\ step' = "byNarration"
    /\ UNCHANGED <<txns, out1, out2, ids, dup, tIn, tOut, gIn, gThreshold>>
    /\ UNCHANGED extVars
    /\ UNCHANGED appVars

NextGroup == CallGroupByDate \/ CallGroupByNarration

SpecGroup == InitGroup /\ [][NextGroup]_vars

----------------------------------------------------------------------------
(* Library calls: normalizeDate applied to a cell and to its own result    *)

DayTexts == {<<"5">>, <<"0", "5">>, <<"3", "1">>}

MonthTexts == {<<"1">>, <<"1", "1">>, <<"0", "2">>}

ShortYearTexts == {<<"2", "4">>, <<"3", "1">>, <<"9", "9">>}

FullYearTexts == {<<"2", "0", "2", "4">>, <<"1", "9", "9", "9">>}

Separators == {<<"-">>, <<"/">>}

\* Date cells of a statement: day first with a two- or four-digit year, year first,
\* padded with blanks, and cells that hold no date.
DateTexts ==
    {d \o s \o m \o s \o y : d \in DayTexts, m \in MonthTexts, s \in Separators,
                             y \in ShortYearTexts \cup FullYearTexts}
    \cup {y \o s \o m \o s \o d : d \in DayTexts, m \in MonthTexts, s \in Separators,
                                  y \in FullYearTexts}
    \cup {<<" ">> \o d \o <<"-">> \o m \o <<"-">> \o y \o <<" ">> :
              d \in DayTexts, m \in MonthTexts, y \in FullYearTexts}
    \cup {Null, Undefined, <<>>, <<" ">>, <<"n", "/", "a">>}

InitNormalize ==
    /\ AppIdle
    /\ txns = <<>> /\ out1 = <<>> /\ out2 = <<>> /\ ids = <<>> /\ dup = FALSE
    /\ step = "start"
    /\ tIn = <<>> /\ tOut = <<>> /\ gIn = <<>> /\ gThreshold = <<>> /\ gOut = <<>>
    /\ fIn \in DateTexts
    /\ fOut = <<>> /\ fOut2 = <<>>
    /\ TagsIdle /\ FilesIdle

CallNormalizeDate ==
    /\ step = "start"
    /\ fOut' = normalizeDate(fIn)
    /\ step' = "normalized"
    /\ UNCHANGED <<txns, out1, out2, ids, dup, fIn, fOut2>>
    /\ UNCHANGED <<callVars, tagVars, fileVars, appVars>>

CallNormalizeDateAgain ==
    /\ step = "normalized"
    /\ fOut # Null
    /\ fOut2' = normalizeDate(fOut)
    /\ step' = "normalized twice"
    /\ UNCHANGED <<txns, out1, out2, ids, dup, fIn, fOut>>
    /\ UNCHANGED <<callVars, tagVars, fileVars, appVars>>

NextNormalize == CallNormalizeDate \/ CallNormalizeDateAgain

SpecNormalize == InitNormalize /\ [][NextNormalize]_vars

----------------------------------------------------------------------------
(* Header stripper (lib/hdfc-parser)                                       *)

\* String.prototype.includes
Includes(s, sub) ==
    \E i \in 1..(Len(s) - Len(sub) + 1) : SubSeq(s, i, i + Len(sub) - 1) = sub

\* String.prototype.split(c) for a one-character separator: the pieces between
\* consecutive occurrences of c, so "" splits into [""].
Split(s, c) ==
    LET seps == {i \in 1..Len(s) : s[i] = c}
        SepAt(k) == CHOOSE i \in seps : Cardinality({j \in seps : j < i}) = k - 1
        n == Cardinality(seps)
    IN  [k \in 1..(n + 1) |->
            SubSeq(s, IF k = 1 THEN 1 ELSE SepAt(k - 1) + 1,
                      IF k = n + 1 THEN Len(s) ELSE SepAt(k) - 1)]

\* Array.prototype.join(c): the empty array joins to "".
RECURSIVE Join(_, _)
Join(ls, c) ==
    IF ls = <<>> THEN <<>>
    ELSE IF Len(ls) = 1 THEN ls[1]
    ELSE ls[1] \o <<c>> \o Join(Tail(ls), c)

\* Array.prototype.slice(start) for a start >= 0 counted from 0.
Slice(ls, start) == SubSeq(ls, start + 1, Len(ls))

WDate == <<"d", "a", "t", "e">>
WNarration == <<"n", "a", "r", "r", "a", "t", "i", "o", "n">>
WDescription == <<"d", "e", "s", "c", "r", "i", "p", "t", "i", "o", "n">>
WParticulars == <<"p", "a", "r", "t", "i", "c", "u", "l", "a", "r", "s">>
WWithdrawal == <<"w", "i", "t", "h", "d", "r", "a", "w", "a", "l">>
WDeposit == <<"d", "e", "p", "o", "s", "i", "t">>
WDebit == <<"d", "e", "b", "i", "t">>
WCredit == <<"c", "r", "e", "d", "i", "t">>
WAmount == <<"a", "m", "o", "u", "n", "t">>
WBalance == <<"b", "a", "l", "a", "n", "c", "e">>

\* The test of the first loop on lines[i].
IsHeaderRow(rawLine) ==
    LET line == ToLowerCase(rawLine)
        hasDate == Includes(line, WDate)
        hasNarration == Includes(line, WNarration) \/ Includes(line, WDescription)
                        \/ Includes(line, WParticulars)
        hasAmount == Includes(line, WWithdrawal) \/ Includes(line, WDeposit)
                     \/ Includes(line, WDebit) \/ Includes(line, WCredit)
                     \/ Includes(line, WAmount)
        hasBalance == Includes(line, WBalance)
    IN  (hasDate /\ hasNarration) \/ (hasDate /\ hasAmount) \/ (hasDate /\ hasBalance)

\* The mutated first loop: the last line that passes the test instead of the first.
LastHeaderIndex(lines) ==
    LET hits == {i \in 0..(Len(lines) - 1) : IsHeaderRow(lines[i + 1])}
    IN  IF hits = {} THEN -1 ELSE CHOOSE i \in hits : \A j \in hits : j <= i

\* The first loop: the index, counted from 0, of the first line that passes the
\* test, -1 when there is none.
FirstHeaderIndex(lines) ==
    LET hits == {i \in 0..(Len(lines) - 1) : IsHeaderRow(lines[i + 1])}
    IN  IF hits = {} THEN -1 ELSE CHOOSE i \in hits : \A j \in hits : i <= j

FallbackScanLines == 30

DefaultHeaderLines == 22

Min2(a, b) == IF a <= b THEN a ELSE b

Max2(a, b) == IF a >= b THEN a ELSE b

\* datePattern.test(line) && line.split(',').length >= 3
LooksLikeDataRow(line) ==
    /\ PatternMatches(line, 1..2, 1..2, 2..4) # {}
    /\ Len(Split(line, ",")) >= 3

\* The fallback loop: the first of the first 30 lines that looks like a data row
\* decides; up to two lines before it are searched for "date" or "narration".
FallbackIndex(lines) ==
    LET rows == {i \in 0..(Min2(FallbackScanLines, Len(lines)) - 1) :
                     LooksLikeDataRow(lines[i + 1])}
    IN  IF rows = {} THEN -1
        ELSE LET i == CHOOSE x \in rows : \A y \in rows : x <= y
                 heads == {j \in Max2(0, i - 2)..(i - 1) :
                               \/ Includes(ToLowerCase(lines[j + 1]), WDate)
                               \/ Includes(ToLowerCase(lines[j + 1]), WNarration)}
             IN  IF heads # {} THEN CHOOSE j \in heads : \A h \in heads : j <= h
                 ELSE Max2(0, i - 1)

stripHDFCHeaders(csvText) ==
    LET lines == Split(csvText, "\n")
        first == FirstHeaderIndex(lines)
        second == IF first = -1 THEN FallbackIndex(lines) ELSE first
        dataStartIndex == IF second = -1 THEN DefaultHeaderLines ELSE second
    IN  Join(Slice(lines, dataStartIndex), "\n")

----------------------------------------------------------------------------
(* Library calls: stripHDFCHeaders applied to the text of an export       *)

MaxLines == 3

LHeader == <<"D", "a", "t", "e", ",", "N", "a", "r", "r", "a", "t", "i", "o", "n", ",", "D",
      "e", "b", "i", "t">>
LBank == <<"H", "D", "F", "C", " ", "B", "A", "N", "K", " ", "L", "t", "d">>
LStatement == <<"S", "t", "a", "t", "e", "m", "e", "n", "t", " ", "D", "a", "t", "e", ",", "B",
      "a", "l", "a", "n", "c", "e">>
LData == <<"0", "1", "-", "0", "1", "-", "2", "0", "2", "4", ",", "T", "e", "s", "t", ",",
      "1", "0", "0">>
LShortData == <<"1", "/", "2", "/", "2", "4", ",", "x">>
LDateOnly == <<"T", "x", "n", " ", "D", "a", "t", "e", ",", "R", "e", "f">>
LBlank == <<>>

LinePool == {LHeader, LBank, LStatement, LData, LShortData, LDateOnly, LBlank}

\* n lines of bank preamble.
Preamble(n) == [i \in 1..n |-> LBank]

\* Exports whose table starts after a long preamble: around the 22 lines the default
\* removes and the 30 lines the fallback scans.
LongExports ==
    {Preamble(n) \o tail : n \in {DefaultHeaderLines - 1, DefaultHeaderLines,
                                  FallbackScanLines - 1, FallbackScanLines},
                           tail \in {<<LData>>, <<LShortData, LBlank>>,
                                     <<LHeader, LData>>}}

ExportTexts == {Join(ls, "\n") : ls \in SeqsUpTo(LinePool, MaxLines) \cup LongExports}

InitStrip ==
    /\ AppIdle
    /\ txns = <<>> /\ out1 = <<>> /\ out2 = <<>> /\ ids = <<>> /\ dup = FALSE
    /\ step = "start"
    /\ tIn = <<>> /\ tOut = <<>> /\ gIn = <<>> /\ gThreshold = <<>> /\ gOut = <<>>
    /\ fIn \in ExportTexts
    /\ fOut = <<>> /\ fOut2 = <<>>
    /\ TagsIdle /\ FilesIdle

CallStripHDFCHeaders ==
    /\ step = "start"
    /\ fOut' = stripHDFCHeaders(fIn)
    /\ step' = "stripped"
    /\ UNCHANGED <<txns, out1, out2, ids, dup, fIn, fOut2>>
    /\ UNCHANGED <<callVars, tagVars, fileVars, appVars>>

NextStrip == CallStripHDFCHeaders

SpecStrip == InitStrip /\ [][NextStrip]_vars

----------------------------------------------------------------------------
(* Fixed deposit extractor (lib/pdf-fd-extractor)                          *)
(*                                                                         *)
(* The regular expressions are run by the engine; the extractor is given   *)
(* here by what it does with their matches.  A section is the record of    *)
(* the matches found in one FD section of the normalized text: numbers is  *)
(* section.match(fdNumberPattern) (<<>> for null), amounts the values of   *)
(* the amountPattern matches, rate the first interest rate (<<>> if none), *)
(* dates section.match(datePattern), status the word after STATUS.         *)

\* m.replace(/FD\s*/gi, "").trim() on a match of /(?:FD\s*)?(\d{8,15})/ in the
\* uppercased text: the match without its FD prefix and the blanks after it.
StripFD(m) ==
    IF Len(m) >= 2 /\ SubSeq(m, 1, 2) = <<"F", "D">> THEN Trim(SubSeq(m, 3, Len(m)))
    ELSE Trim(m)

MapStripFD(ms) == [i \in 1..Len(ms) |-> StripFD(ms[i])]

\* .sort((a, b) => b.length - a.length)[0]: the sort is stable, so the first of the
\* longest strings.
LongestFirst(ns) ==
    ns[CHOOSE i \in 1..Len(ns) :
           /\ \A j \in 1..Len(ns) : Len(ns[j]) <= Len(ns[i])
           /\ \A j \in 1..(i - 1) : Len(ns[j]) < Len(ns[i])]

RECURSIVE MaxOf(_)
MaxOf(ns) ==
    IF Len(ns) = 1 THEN ns[1]
    ELSE LET m == MaxOf(Tail(ns)) IN IF ns[1] >= m THEN ns[1] ELSE m

RECURSIVE MinOf(_)
MinOf(ns) ==
    IF Len(ns) = 1 THEN ns[1]
    ELSE LET m == MinOf(Tail(ns)) IN IF ns[1] <= m THEN ns[1] ELSE m

\* x || null for an optional number: 0 and a missing value both give null.
NumberOrNull(x) == IF x = <<>> \/ x = <<0>> THEN <<>> ELSE x

\* x || null for an optional string.
StringOrNull(x) == IF Falsy(x) THEN Null ELSE x

\* The status when no STATUS match exists: "Closed" if the maturity date lies before
\* today, "Active" otherwise and without a date.  Today is not fixed by the program,
\* so with a date both outcomes are possible.
InferredStatuses(maturityDate) ==
    IF Falsy(maturityDate) THEN {<<"A", "c", "t", "i", "v", "e">>}
    ELSE {<<"A", "c", "t", "i", "v", "e">>, <<"C", "l", "o", "s", "e", "d">>}

\* The partial record the forEach body builds for a section, for one choice of the
\* inferred status: fd_number is Undefined when no number was matched.
SectionFd(section, inferred) ==
    [fd_number |-> IF section.numbers # <<>>
                   THEN LongestFirst(MapStripFD(section.numbers))
                   ELSE Undefined,
     principal_amt |-> IF section.amounts # <<>> THEN <<section.amounts[1]>> ELSE <<>>,
     maturity_amt |-> IF Len(section.amounts) > 1 THEN <<MaxOf(section.amounts)>> ELSE <<>>,
     interest_rate |-> section.rate,
     maturity_date |-> IF section.dates # <<>>
                       THEN normalizeDate(section.dates[Len(section.dates)])
                       ELSE Undefined,
     status |-> IF section.status # <<>> THEN section.status ELSE inferred]

\* The record pushed for a partial record.
Pushed(fd) ==
    [fd_number |-> fd.fd_number,
     principal_amt |-> NumberOrNull(fd.principal_amt),
     interest_rate |-> NumberOrNull(fd.interest_rate),
     maturity_date |-> StringOrNull(fd.maturity_date),
     maturity_amt |-> NumberOrNull(fd.maturity_amt),
     status |-> StringOrNull(fd.status)]

\* if (fd.fd_number && typeof fd.fd_number === "string")
HasFdNumber(fd) == ~Falsy(fd.fd_number)

\* The sets of fds arrays the sections loop can leave, one per choice of the
\* inferred statuses.
RECURSIVE FdsOfSections(_)
FdsOfSections(sections) ==
    IF sections = <<>> THEN {<<>>}
    ELSE LET s == Head(sections)
             date == SectionFd(s, <<>>).maturity_date
         IN  {(IF HasFdNumber(SectionFd(s, st)) THEN <<Pushed(SectionFd(s, st))>>
               ELSE <<>>) \o rest :
                  st \in InferredStatuses(date), rest \in FdsOfSections(Tail(sections))}

\* [...new Set(xs)]: the first occurrences, in order.
RECURSIVE UniqueInOrder(_)
UniqueInOrder(xs) ==
    IF xs = <<>> THEN <<>>
    ELSE LET front == UniqueInOrder(SubSeq(xs, 1, Len(xs) - 1))
             x == xs[Len(xs)]
         IN  IF \E i \in 1..Len(front) : front[i] = x THEN front ELSE Append(front, x)

FallbackMinAmount == 1000

FilterAmounts(as) == SelectSeq(as, LAMBDA a : a > FallbackMinAmount)

\* The fallback when no section matches: one record per distinct number of the text,
\* with the amounts above 1000 of its context (texts short enough for the context of
\* every number to be the whole text, without rates and dates).
FdsOfNumbers(numbers, amounts) ==
    LET uniqueFdNumbers == UniqueInOrder(MapStripFD(numbers))
        kept == FilterAmounts(amounts)
        fd(n) == [fd_number |-> n,
                  principal_amt |-> IF kept # <<>> THEN <<MinOf(kept)>> ELSE <<>>,
                  maturity_amt |-> IF kept # <<>> THEN <<MaxOf(kept)>> ELSE <<>>,
                  interest_rate |-> <<>>,
                  maturity_date |-> Undefined,
                  status |-> <<"A", "c", "t", "i", "v", "e">>]
        all == [i \in 1..Len(uniqueFdNumbers) |-> fd(uniqueFdNumbers[i])]
    IN  [i \in 1..Len(SelectSeq(all, HasFdNumber)) |-> Pushed(SelectSeq(all, HasFdNumber)[i])]

\* self.findIndex((f) => f.fd_number === fd.fd_number)
FindIndex(self, n) == CHOOSE i \in 1..Len(self) :
    /\ self[i].fd_number = n
    /\ \A j \in 1..(i - 1) : self[j].fd_number # n

FindLastIndex(self, n) == CHOOSE i \in 1..Len(self) :
    /\ self[i].fd_number = n
    /\ \A j \in (i + 1)..Len(self) : self[j].fd_number # n

RECURSIVE FilterByIndex(_, _, _)
FilterByIndex(fds, k, last) ==
    IF k > Len(fds) THEN <<>>
    ELSE (IF k = (IF last THEN FindLastIndex(fds, fds[k].fd_number)
                  ELSE FindIndex(fds, fds[k].fd_number))
          THEN <<fds[k]>> ELSE <<>>) \o FilterByIndex(fds, k + 1, last)

\* The mutated filter: the last record of each fd_number is kept.
UniqueFDsKeepLast(fds) == FilterByIndex(fds, 1, TRUE)

\* fds.filter((fd, index, self) => index === self.findIndex(...))
UniqueFDs(fds) == FilterByIndex(fds, 1, FALSE)

\* The results extractFixedDeposits can return for the matches of a text.
extractFixedDeposits(scan) ==
    IF scan.sections # <<>>
    THEN {UniqueFDs(fds) : fds \in FdsOfSections(scan.sections)}
    ELSE IF scan.numbers # <<>>
         THEN {UniqueFDs(FdsOfNumbers(scan.numbers, scan.amounts))}
         ELSE {UniqueFDs(<<>>)}

----------------------------------------------------------------------------
(* Library calls: extractFixedDeposits applied to the matches of a text    *)

MaxSections == 3

NumA == <<"1", "2", "3", "4", "5", "6", "7", "8">>
NumB == <<"1", "2", "3", "4", "5", "6", "7", "8", "9">>
FdNumA == <<"F", "D", "1", "2", "3", "4", "5", "6", "7", "8">>
FdNumB == <<"F", "D", " ", "1", "2", "3", "4", "5", "6", "7", "8", "9">>

Section(numbers, amounts, rate, dates, status) ==
    [numbers |-> numbers, amounts |-> amounts, rate |-> rate, dates |-> dates,
     status |-> status]

\* Sections of a statement: two deposits, each met again with other amounts, a
\* section with two numbers, a section without a number, one with a zero amount.
SectionPool ==
    { Section(<<FdNumA>>, <<500000, 550000>>, <<7>>, <<>>, <<"A", "C", "T", "I", "V", "E">>),
      Section(<<NumA>>, <<100000>>, <<>>, <<>>, <<>>),
      Section(<<NumA, FdNumB>>, <<0>>, <<>>, <<<<"0", "1", "-", "0", "4", "-", "2", "0", "3", "0">>>>, <<>>),
      Section(<<FdNumB>>, <<200000, 150000>>, <<>>, <<>>, <<"C", "L", "O", "S", "E", "D">>),
      Section(<<NumB>>, <<>>, <<0>>, <<>>, <<>>),
      Section(<<>>, <<900000>>, <<6>>, <<>>, <<>>) }

Scan(sections, numbers, amounts) ==
    [sections |-> sections, numbers |-> numbers, amounts |-> amounts]

\* Texts with FD sections, and texts without one that hold numbers and amounts.
Scans ==
    {Scan(ss, <<>>, <<>>) : ss \in SeqsUpTo(SectionPool, MaxSections)}
    \cup {Scan(<<>>, ns, as) : ns \in SeqsUpTo({NumA, FdNumA, FdNumB}, MaxSections),
                               as \in {<<>>, <<500>>, <<550000, 500, 500000>>}}

InitExtract ==
    /\ AppIdle
    /\ txns = <<>> /\ out1 = <<>> /\ out2 = <<>> /\ ids = <<>> /\ dup = FALSE
    /\ step = "start"
    /\ tIn = <<>> /\ tOut = <<>> /\ gIn = <<>> /\ gThreshold = <<>> /\ gOut = <<>>
    /\ fIn \in Scans
    /\ fOut = <<>> /\ fOut2 = <<>>
    /\ TagsIdle /\ FilesIdle

CallExtractFixedDeposits ==
    /\ step = "start"
    /\ fOut' \in extractFixedDeposits(fIn)
    /\ step' = "extracted"
    /\ UNCHANGED <<txns, out1, out2, ids, dup, fIn, fOut2>>
    /\ UNCHANGED <<callVars, tagVars, fileVars, appVars>>

NextExtract == CallExtractFixedDeposits

SpecExtract == InitExtract /\ [][NextExtract]_vars

----------------------------------------------------------------------------
(* Column type inference (lib/csv-parser detectColumnTypes)                *)
(*                                                                         *)
(* A parsed row is a sequence of <<column, value>> pairs in key order; the *)
(* suggestions are a sequence of <<column, suggestion>> pairs in the order *)
(* they are assigned.                                                      *)

SampleSize == 10

\* Object.keys(row)
Keys(row) == [i \in 1..Len(row) |-> row[i][1]]

\* row[col]
Cell(row, col) ==
    IF \E i \in 1..Len(row) : row[i][1] = col
    THEN row[CHOOSE i \in 1..Len(row) : row[i][1] = col][2]
    ELSE Undefined

\* The mutated sample: every row.
SampleAll(rows) == rows

\* data.slice(0, Math.min(10, data.length))
Sample(rows) == SubSeq(rows, 1, Min2(SampleSize, Len(rows)))

\* /\d{1,2}[-\/]\d{1,2}[-\/]\d{2,4}/.test(v)
LooksLikeDate(v) == PatternMatches(v, 1..2, 1..2, 2..4) # {}

\* /[\d,]+\.?\d*/.test(v) && (v.includes(".") || v.includes(",")): the pattern
\* matches as soon as v holds a digit or a comma.
LooksLikeAmount(v) ==
    /\ \E i \in 1..Len(v) : IsDigit(v[i]) \/ v[i] = ","
    /\ Includes(v, <<".">>) \/ Includes(v, <<",">>)

\* The else branch: the suggestion inferred from the first truthy value of the
\* column in the sample, <<>> when there is none.
InferFromData(sample, col) ==
    LET sampleValues == SelectSeq([i \in 1..Len(sample) |-> Cell(sample[i], col)],
                                  LAMBDA v : ~Falsy(v))
    IN  IF sampleValues = <<>> THEN <<>>
        ELSE IF LooksLikeDate(sampleValues[1]) THEN <<"d", "a", "t", "e">>
        ELSE IF LooksLikeAmount(sampleValues[1]) THEN <<"a", "m", "o", "u", "n", "t">>
        ELSE <<>>

\* The body of columns.forEach: the suggestion for col, <<>> when none is assigned.
SuggestionFor(sample, col) ==
    LET colLower == ToLowerCase(col)
        has(w) == Includes(colLower, w)
    IN  IF has(<<"d", "a", "t", "e">>) \/ has(<<"d", "t">>) THEN <<"d", "a", "t", "e">>
        ELSE IF has(<<"n", "a", "r", "r", "a", "t", "i", "o", "n">>) \/ has(<<"d", "e", "s", "c", "r", "i", "p", "t", "i", "o", "n">>) \/ has(<<"p", "a", "r", "t", "i", "c", "u", "l", "a", "r", "s">>)
             THEN <<"n", "a", "r", "r", "a", "t", "i", "o", "n">>
        ELSE IF has(<<"r", "e", "f">>) \/ has(<<"r", "e", "f", "e", "r", "e", "n", "c", "e">>) \/ has(<<"c", "h", "q">>) THEN <<"r", "e", "f", "_", "n", "o">>
        ELSE IF has(<<"v", "a", "l", "u", "e">>) /\ has(<<"d", "a", "t", "e">>) THEN <<"v", "a", "l", "u", "e", "_", "d", "a", "t", "e">>
        ELSE IF has(<<"w", "i", "t", "h", "d", "r", "a", "w", "a", "l">>) \/ has(<<"d", "e", "b", "i", "t">>) \/ has(<<"d", "r">>) THEN <<"w", "i", "t", "h", "d", "r", "a", "w", "a", "l", "_", "a", "m", "t">>
        ELSE IF has(<<"d", "e", "p", "o", "s", "i", "t">>) \/ has(<<"c", "r", "e", "d", "i", "t">>) \/ has(<<"c", "r">>) THEN <<"d", "e", "p", "o", "s", "i", "t", "_", "a", "m", "t">>
        ELSE IF has(<<"b", "a", "l", "a", "n", "c", "e">>) \/ has(<<"c", "l", "o", "s", "i", "n", "g">>) THEN <<"c", "l", "o", "s", "i", "n", "g", "_", "b", "a", "l", "a", "n", "c", "e">>
        ELSE InferFromData(sample, col)

RECURSIVE SuggestionsFor(_, _)
SuggestionsFor(sample, columns) ==
    IF columns = <<>> THEN <<>>
    ELSE LET s == SuggestionFor(sample, Head(columns))
         IN  (IF s = <<>> THEN <<>> ELSE << <<Head(columns), s>> >>)
             \o SuggestionsFor(sample, Tail(columns))

detectColumnTypes(rows) ==
    IF Len(rows) = 0 THEN <<>>
    ELSE SuggestionsFor(Sample(rows), Keys(Sample(rows)[1]))

----------------------------------------------------------------------------
(* Library calls: detectColumnTypes applied to two row lists               *)

MaxTail == 2

\* Headers as the parsers normalize them, and one kept as exported.
StatementColumns == <<<<"d", "a", "t", "e">>, <<"n", "a", "r", "r", "a", "t", "i", "o", "n">>, <<"c", "h", "q", "_", "n", "o">>, <<"V", "a", "l", "u", "e", " ", "D", "a", "t", "e">>, <<"i", "n", "f", "o">>>>

AmountColumns == <<<<"w", "i", "t", "h", "d", "r", "a", "w", "a", "l", "_", "a", "m", "t">>, <<"d", "e", "p", "o", "s", "i", "t", "_", "a", "m", "t">>, <<"c", "l", "o", "s", "i", "n", "g", "_", "b", "a", "l", "a", "n", "c", "e">>, <<"a", "m", "t">>>>

\* The values of the last column of a row; the other cells do not vary.
LastCells == {<<>>, <<"0", "1", "/", "0", "2", "/", "2", "0", "2", "4">>, <<"1", ",", "0", "0", "0", ".", "5", "0">>, <<"1", "2">>}

RowOf(columns, last) ==
    [i \in 1..Len(columns) |-> <<columns[i], IF i = Len(columns) THEN last ELSE <<"x">> >>]

\* Row lists of one header: rows whose last cell is empty, then up to MaxTail rows
\* with any last cell, so that the first value of the column can lie in the tenth
\* row, in the eleventh or in no row.
RowLists ==
    {[i \in 1..b |-> RowOf(columns, <<>>)] \o [i \in 1..Len(t) |-> RowOf(columns, t[i])] :
        columns \in {StatementColumns, AmountColumns},
        b \in {0, SampleSize - 1, SampleSize, SampleSize + 1},
        t \in SeqsUpTo(LastCells, MaxTail)}

\* The two lists have the same rows at the first n places (a missing row only
\* agrees with a missing row).
AgreeOnFirstRows(d, e, n) ==
    \A i \in 1..n :
        /\ i <= Len(d) <=> i <= Len(e)
        /\ i <= Len(d) => d[i] = e[i]

\* The calls compared: two non-empty row lists that agree on their first 10 rows.
RowListPairs ==
    {p \in RowLists \X RowLists :
        Len(p[1]) > 0 /\ Len(p[2]) > 0 /\ AgreeOnFirstRows(p[1], p[2], 10)}

InitDetect ==
    /\ AppIdle
    /\ txns = <<>> /\ out1 = <<>> /\ out2 = <<>> /\ ids = <<>> /\ dup = FALSE
    /\ step = "start"
    /\ tIn = <<>> /\ tOut = <<>> /\ gIn = <<>> /\ gThreshold = <<>> /\ gOut = <<>>
    /\ fIn \in RowListPairs
    /\ fOut = <<>> /\ fOut2 = <<>>
    /\ TagsIdle /\ FilesIdle

CallDetectColumnTypes ==
    /\ step = "start"
    /\ fOut' = detectColumnTypes(fIn[1])
    /\ step' = "detected"
    /\ UNCHANGED <<txns, out1, out2, ids, dup, fIn, fOut2>>
    /\ UNCHANGED <<callVars, tagVars, fileVars, appVars>>

CallDetectColumnTypesOther ==
    /\ step = "detected"
    /\ fOut2' = detectColumnTypes(fIn[2])
    /\ step' = "detected both"
    /\ UNCHANGED <<txns, out1, out2, ids, dup, fIn, fOut>>
    /\ UNCHANGED <<callVars, tagVars, fileVars, appVars>>

NextDetect == CallDetectColumnTypes \/ CallDetectColumnTypesOther

SpecDetect == InitDetect /\ [][NextDetect]_vars

----------------------------------------------------------------------------
(* Transactions table: tag editing (components/transactions-table)         *)
(*                                                                         *)
(* tagsTable is the tags column of the stored transactions.  data maps a   *)
(* page to the rows its query last fetched, [loaded |-> FALSE] before the  *)
(* first fetch; the component shows data[page].  A tag is a string, a tag  *)
(* list a sequence of tags.                                                *)

\* limit of the query, scaled down from the default 20.
PageLimit == 1

\* updateTransactionTags requests that can be in flight together.
MaxPending == 2

\* Times the bulk Add Tag is used.
MaxBulkOps == 1

\* The stored transactions, in the order the query returns them.
TagTxns == <<"1", "2">>

Pages == 1..((Len(TagTxns) + PageLimit - 1) \div PageLimit)

\* The ids getTransactions returns for limit = PageLimit and the offset of page p.
PageIds(p) ==
    SubSeq(TagTxns, (p - 1) * PageLimit + 1,
           IF p * PageLimit < Len(TagTxns) THEN p * PageLimit ELSE Len(TagTxns))

\* What is typed into the tag input of a row and into the bulk dialog.
NewTagValues == {<<"x">>}

BulkTagValues == {<<" ", "y">>, <<"x">>, <<" ">>}

NotLoaded == [loaded |-> FALSE, rows |-> <<>>]

NoBulk == [state |-> "idle", tag |-> <<>>, selected |-> {}, before |-> <<>>,
           after |-> <<>>, started |-> 0]

\* The rows the component renders.
ShownRows == IF data[page].loaded THEN data[page].rows ELSE <<>>

\* allTransactionIds (no grouping)
ShownIds == {ShownRows[i].id : i \in 1..Len(ShownRows)}

\* tags.includes(t)
IncludesTag(tags, t) == \E i \in 1..Len(tags) : tags[i] = t

\* tags.filter((t) => t !== tagToRemove)
WithoutTag(tags, t) == SelectSeq(tags, LAMBDA x : x # t)

otherVars == <<appVars, txns, out1, out2, ids, dup, step, callVars, funVars, fileVars>>

InitTags ==
    /\ AppIdle
    /\ txns = <<>> /\ out1 = <<>> /\ out2 = <<>> /\ ids = <<>> /\ dup = FALSE
    /\ step = "none"
    /\ tIn = <<>> /\ tOut = <<>> /\ gIn = <<>> /\ gThreshold = <<>> /\ gOut = <<>>
    /\ FunIdle /\ FilesIdle
    /\ tagsTable = [id \in {TagTxns[i] : i \in 1..Len(TagTxns)} |-> <<>>]
    /\ data = [p \in Pages |-> NotLoaded]
    /\ page = 1
    /\ selectedRows = {}
    /\ pendingUpdates = {}
    /\ bulk = NoBulk

\* queryFn: the query of the page shown fetches its rows (first load, the refetch
\* after invalidateQueries, or a background refetch).
Refetch ==
    /\ data' = [data EXCEPT ![page] =
                   [loaded |-> TRUE,
                    rows |-> [i \in 1..Len(PageIds(page)) |->
                                 [id |-> PageIds(page)[i],
                                  tags |-> tagsTable[PageIds(page)[i]]]]]]
    /\ data' # data
    /\ UNCHANGED <<tagsTable, page, selectedRows, pendingUpdates, bulk>>
    /\ UNCHANGED otherVars

\* The parent changes offset: the rows cached for the new query key are shown.
ChangePage ==
    /\ \E p \in Pages \ {page} : page' = p
    /\ UNCHANGED <<tagsTable, data, selectedRows, pendingUpdates, bulk>>
    /\ UNCHANGED otherVars

toggleSelectRow ==
    /\ \E id \in ShownIds :
          selectedRows' = IF id \in selectedRows THEN selectedRows \ {id}
                          ELSE selectedRows \cup {id}
    /\ UNCHANGED <<tagsTable, data, page, pendingUpdates, bulk>>
    /\ UNCHANGED otherVars

\* The header checkbox is rendered with the rows.
toggleSelectAll ==
    /\ ShownRows # <<>>
    /\ selectedRows' = IF Cardinality(selectedRows) = Cardinality(ShownIds) THEN {}
                       ELSE ShownIds
    /\ selectedRows' # selectedRows
    /\ UNCHANGED <<tagsTable, data, page, pendingUpdates, bulk>>
    /\ UNCHANGED otherVars

\* updateTagsMutation.mutate: the request is sent.
handleTagsChange(transactionId, newTags) ==
    /\ Cardinality(pendingUpdates) < MaxPending
    /\ pendingUpdates' = pendingUpdates \cup
                            {[id |-> transactionId, tags |-> newTags, bulk |-> FALSE]}
    /\ UNCHANGED <<tagsTable, data, page, selectedRows, bulk>>
    /\ UNCHANGED otherVars

\* EditableTags of a shown row: a tag is added to the tags shown.
HandleAddTag ==
    \E i \in 1..Len(ShownRows), v \in NewTagValues :
        /\ Trim(v) # <<>> /\ ~IncludesTag(ShownRows[i].tags, Trim(v))
        /\ handleTagsChange(ShownRows[i].id, Append(ShownRows[i].tags, Trim(v)))

\* EditableTags of a shown row: a tag shown is removed.
HandleRemoveTag ==
    \E i \in 1..Len(ShownRows) :
        \E k \in 1..Len(ShownRows[i].tags) :
            handleTagsChange(ShownRows[i].id,
                             WithoutTag(ShownRows[i].tags, ShownRows[i].tags[k]))

\* The updates handleBulkAddTag computes: one per shown row that is selected.
BulkUpdates(trimmed) ==
    {[id |-> ShownRows[i].id,
      tags |-> IF IncludesTag(ShownRows[i].tags, trimmed) THEN ShownRows[i].tags
               ELSE Append(ShownRows[i].tags, trimmed),
      bulk |-> TRUE] : i \in {j \in 1..Len(ShownRows) : ShownRows[j].id \in selectedRows}}

\* handleBulkAddTag: the updates are sent; with no update Promise.all resolves at
\* once and the selection is cleared.  The Add Tag bar is rendered with the rows,
\* when some id is selected.
handleBulkAddTag ==
    /\ bulk.state # "running" /\ bulk.started < MaxBulkOps
    /\ ShownRows # <<>>
    /\ selectedRows # {}
    /\ \E v \in BulkTagValues :
          LET trimmed == Trim(v)
              updates == BulkUpdates(trimmed)
              started == [state |-> "running", tag |-> trimmed, selected |-> selectedRows,
                          before |-> tagsTable, after |-> <<>>,
                          started |-> bulk.started + 1]
          IN  /\ trimmed # <<>>
              /\ Cardinality(pendingUpdates \cup updates) <= MaxPending
              /\ pendingUpdates' = pendingUpdates \cup updates
              /\ IF updates = {}
                 THEN /\ bulk' = [started EXCEPT !.state = "done", !.after = tagsTable]
                      /\ selectedRows' = {}
                 ELSE /\ bulk' = started
                      /\ UNCHANGED selectedRows
    /\ UNCHANGED <<tagsTable, data, page>>
    /\ UNCHANGED otherVars

\* updateTransactionTags: the table sets the tags of the row and the request
\* resolves.  The last request of a bulk Add Tag resolves Promise.all, whose callback
\* clears the selection.
UpdateReturns ==
    /\ \E u \in pendingUpdates :
          /\ tagsTable' = [tagsTable EXCEPT ![u.id] = u.tags]
          /\ pendingUpdates' = pendingUpdates \ {u}
          /\ IF u.bulk /\ ~\E w \in pendingUpdates \ {u} : w.bulk
             THEN /\ bulk' = [bulk EXCEPT !.state = "done", !.after = tagsTable']
                  /\ selectedRows' = {}
             ELSE UNCHANGED <<bulk, selectedRows>>
    /\ UNCHANGED <<data, page>>
    /\ UNCHANGED otherVars

NextTags ==
    \/ Refetch
    \/ ChangePage
    \/ toggleSelectRow
    \/ toggleSelectAll
    \/ HandleAddTag
    \/ HandleRemoveTag
    \/ handleBulkAddTag
    \/ UpdateReturns

SpecTags == InitTags /\ [][NextTags]_vars

----------------------------------------------------------------------------
(* Upload page: file selection and the parse it awaits                     *)
(* (app/upload/page.tsx and app/transactions/page.tsx, handleFileSelect)   *)

\* File parses that can be in flight together.
MaxReads == 3

\* String.prototype.endsWith
EndsWith(s, suffix) ==
    Len(s) >= Len(suffix) /\ SubSeq(s, Len(s) - Len(suffix) + 1, Len(s)) = suffix

IsCSV(file) == EndsWith(ToLowerCase(file.name), <<".", "c", "s", "v">>)

IsExcel(file) ==
    \/ EndsWith(ToLowerCase(file.name), <<".", "x", "l", "s">>)
    \/ EndsWith(ToLowerCase(file.name), <<".", "x", "l", "s", "x">>)

IsNumbers(file) == EndsWith(ToLowerCase(file.name), <<".", "n", "u", "m", "b", "e", "r", "s">>)

\* A file and what its parser gives: the rows and the recoverable errors, or a
\* rejection with a message.
File(name, rows, errors, rejects) ==
    [name |-> name, data |-> rows, errors |-> errors, rejects |-> rejects]

ParseError(message, row) == [message |-> message, row |-> row]

FilePool ==
    { File(<<"m", "a", "y", ".", "c", "s", "v">>,
           <<Row(<<"0", "5", "-", "1", "1", "-", "2", "0", "2", "4">>, <<"A", "t", "m">>,
                 <<"5", "0", "0">>, <<>>)>>,
           <<>>, FALSE),
      File(<<"J", "u", "n", "e", ".", "X", "L", "S", "X">>,
           <<Row(<<"5", "/", "1", "1", "/", "2", "4">>, <<"p", "o", "s">>, <<>>,
                 <<"7", "5">>),
             Row(<<"0", "5", "-", "1", "1", "-", "2", "0", "2", "4">>, <<"A", "t", "m">>,
                 <<"5", "0", "0">>, <<>>)>>,
           <<ParseError("Too few fields", <<3>>)>>, FALSE),
      File(<<"o", "l", "d", ".", "x", "l", "s">>, <<>>, <<>>, TRUE),
      File(<<"j", "u", "l", "y", ".", "n", "u", "m", "b", "e", "r", "s">>, <<>>, <<>>, FALSE),
      File(<<"f", "d", ".", "p", "d", "f">>, <<>>, <<>>, FALSE) }

NumbersMessage == "Numbers (.numbers) files are not supported."

RejectMessage == "Failed to read file"

RemoveAt(s, i) == SubSeq(s, 1, i - 1) \o SubSeq(s, i + 1, Len(s))

fileOtherVars ==
    <<req, pc, nMapped, transformed, batch, chunkIdx, insertedIds, lastError, sent, db,
      resp, txns, out1, out2, ids, dup, step, callVars, funVars, tagVars>>

InitFiles ==
    /\ AppIdle
    /\ txns = <<>> /\ out1 = <<>> /\ out2 = <<>> /\ ids = <<>> /\ dup = FALSE
    /\ step = "none"
    /\ tIn = <<>> /\ tOut = <<>> /\ gIn = <<>> /\ gThreshold = <<>> /\ gOut = <<>>
    /\ FunIdle /\ TagsIdle
    /\ selectedFile = <<>> /\ reads = <<>> /\ parseErrors = <<>> /\ parsing = FALSE

\* handleFileSelect up to its await: the state is reset and, for a CSV or Excel
\* file, the parse is started; a Numbers file gets its message at once.
SelectFile ==
    /\ Len(reads) < MaxReads
    /\ \E file \in FilePool :
          /\ selectedFile' = <<file>>
          /\ parsedData' = <<>>
          /\ mapping' = <<>>
          /\ uploadResult' = NoResult
          /\ IF IsCSV(file) \/ IsExcel(file)
             THEN /\ parseErrors' = <<>>
                  /\ parsing' = TRUE
                  /\ reads' = Append(reads, file)
             ELSE /\ parseErrors' = IF IsNumbers(file)
                                    THEN <<ParseError(NumbersMessage, <<>>)>>
                                    ELSE <<>>
                  /\ UNCHANGED <<parsing, reads>>
    /\ UNCHANGED fileOtherVars

\* handleFileSelect after its await: the parse of a file resolves and its rows and
\* errors are put into the state.
ParseResolves ==
    /\ \E i \in 1..Len(reads) :
          /\ ~reads[i].rejects
          /\ parsedData' = reads[i].data
          /\ parseErrors' = reads[i].errors
          /\ parsing' = FALSE
          /\ reads' = RemoveAt(reads, i)
    /\ UNCHANGED <<selectedFile, mapping, uploadResult>>
    /\ UNCHANGED fileOtherVars

\* handleFileSelect after its await: the parse rejects and the catch block shows the
\* message.
ParseRejects ==
    /\ \E i \in 1..Len(reads) :
          /\ reads[i].rejects
          /\ parseErrors' = <<ParseError(RejectMessage, <<>>)>>
          /\ parsing' = FALSE
          /\ reads' = RemoveAt(reads, i)
    /\ UNCHANGED <<selectedFile, parsedData, mapping, uploadResult>>
    /\ UNCHANGED fileOtherVars

NextFiles == SelectFile \/ ParseResolves \/ ParseRejects

SpecFiles == InitFiles /\ [][NextFiles]_vars

----------------------------------------------------------------------------
(* Properties of the duplicate-detection functions                         *)

IdsOf(ts) == {getTransactionIdentifier(ts[k]) : k \in 1..Len(ts)}

\* Indices whose element is the first of ts carrying its identifier.
FirstOccurrences(ts) ==
    {k \in 1..Len(ts) :
        \A j \in 1..(k - 1) : getTransactionIdentifier(ts[j]) # getTransactionIdentifier(ts[k])}

\* Some strictly increasing choice of indices of ts, all in K, spells us.
IsSubsequenceAt(us, ts, K) ==
    \E f \in [1..Len(us) -> K] :
        /\ \A p \in 1..Len(us) : us[p] = ts[f[p]]
        /\ \A p \in 1..(Len(us) - 1) : f[p] < f[p + 1]

\* C6: removeDuplicates returns no more elements than it was given; its output is a
\* subsequence of the input that holds exactly one element per identifier of the
\* input, and that element is the first input element carrying the identifier.
C6_FirstOccurrenceSubsequence ==
    step \in {"once", "twice"} =>
        /\ Len(out1) <= Len(txns)
        /\ IsSubsequenceAt(out1, txns, FirstOccurrences(txns))
        /\ \A i \in IdsOf(txns) :
              Cardinality({p \in 1..Len(out1) : getTransactionIdentifier(out1[p]) = i}) = 1

\* A list with a repeated identifier whose later carrier is a different record has
\* been deduplicated.
C6_Witness ==
    /\ step = "once"
    /\ Len(out1) < Len(txns)
    /\ Len(out1) >= 2
    /\ \E j, k \in 1..Len(txns) :
          /\ j < k
          /\ txns[j] # txns[k]
          /\ getTransactionIdentifier(txns[j]) = getTransactionIdentifier(txns[k])

\* C7: removeDuplicates is idempotent: applying it to its own output returns that
\* output element for element.
C7_Idempotent ==
    step = "twice" =>
        /\ Len(out2) = Len(out1)
        /\ \A p \in 1..Len(out1) : out2[p] = out1[p]

\* The second application has run on the output of a first one that removed
\* several duplicates.
C7_Witness ==
    /\ step = "twice"
    /\ Len(txns) - Len(out1) >= 2
    /\ out1 # <<>>

NonBlankRef(t) ==
    /\ t.ref_no # Null
    /\ t.ref_no # Undefined
    /\ \E k \in 1..Len(t.ref_no) : t.ref_no[k] # " "

\* The amount the claim names: withdrawal_amt if nonzero, else deposit_amt if
\* nonzero, else 0.
NamedAmount(t) ==
    LET w == IF t.withdrawal_amt = <<>> THEN 0 ELSE t.withdrawal_amt[1]
        d == IF t.deposit_amt = <<>> THEN 0 ELSE t.deposit_amt[1]
    IN  IF w # 0 THEN w ELSE IF d # 0 THEN d ELSE 0

SameContent(a, b) ==
    /\ a.date = b.date
    /\ ToLowerCase(Trim(a.narration)) = ToLowerCase(Trim(b.narration))
    /\ NamedAmount(a) = NamedAmount(b)

HasPrefix(s, p) == Len(s) >= Len(p) /\ SubSeq(s, 1, Len(p)) = p

\* C8: the identifier is "ref:" + trimmed ref_no for a non-blank ref_no and
\* "hash:" + digest of date|narration|amount otherwise; two transactions get the
\* same identifier iff both have non-blank ref_nos equal after trimming, or both have
\* a blank ref_no and agree on date, trimmed lowercased narration and amount; a
\* ref-based identifier never equals a hash-based one.
C8_IdentifierShape ==
    step \in {"identified", "compared"} =>
        LET a == txns[1]
            b == txns[2]
        IN  /\ \A k \in 1..2 :
                  IF NonBlankRef(txns[k])
                  THEN ids[k] = <<"r", "e", "f", ":">> \o Trim(txns[k].ref_no)
                  ELSE /\ HasPrefix(ids[k], <<"h", "a", "s", "h", ":">>)
                       /\ SubSeq(ids[k], 6, Len(ids[k])) =
                              txns[k].date \o <<"|">> \o ToLowerCase(Trim(txns[k].narration))
                                  \o <<"|">> \o NumberToString(NamedAmount(txns[k]))
            /\ (ids[1] = ids[2]) <=>
                  \/ NonBlankRef(a) /\ NonBlankRef(b) /\ Trim(a.ref_no) = Trim(b.ref_no)
                  \/ ~NonBlankRef(a) /\ ~NonBlankRef(b) /\ SameContent(a, b)
            /\ (NonBlankRef(a) /\ ~NonBlankRef(b)) => ids[1] # ids[2]

\* Two different records, one with a padded ref_no, were given the same ref
\* identifier.
C8_Witness ==
    /\ step = "identified"
    /\ ids[1] = ids[2]
    /\ txns[1].ref_no # txns[2].ref_no
    /\ NonBlankRef(txns[1])

\* The ref_no is present: neither null, undefined nor the empty string.
HasRefNo(t) == t.ref_no # Null /\ t.ref_no # Undefined /\ Len(t.ref_no) > 0

\* C9: areTransactionsDuplicate(a, b) is true iff both have a ref_no and the two
\* are equal after trimming, or, when either lacks a ref_no, their content hashes
\* (date, trimmed lowercased narration, amount) are equal.
C9_DuplicateIff ==
    step = "compared" =>
        LET a == txns[1]
            b == txns[2]
        IN  dup <=>
              \/ HasRefNo(a) /\ HasRefNo(b) /\ Trim(a.ref_no) = Trim(b.ref_no)
              \/ (~HasRefNo(a) \/ ~HasRefNo(b)) /\ SameContent(a, b)

\* Two records with differently padded ref_nos and different content were found
\* duplicate.
C9_Witness ==
    /\ step = "compared"
    /\ dup
    /\ HasRefNo(txns[1]) /\ HasRefNo(txns[2])
    /\ txns[1].ref_no # txns[2].ref_no
    /\ ~SameContent(txns[1], txns[2])

----------------------------------------------------------------------------
(* Properties of the upload request                                        *)

\* The identifiers of ts are pairwise distinct.
DistinctIdentifiers(ts) ==
    \A j, k \in 1..Len(ts) :
        getTransactionIdentifier(ts[j]) = getTransactionIdentifier(ts[k]) => j = k

\* C1: within one upload request the records passed to upsertTransactions, and so
\* the records delivered to storage for that batch, have pairwise distinct
\* transaction identifiers, whatever rows and mapping were posted.
C1_BatchIdentifiersDistinct ==
    /\ DistinctIdentifiers(batch)
    /\ DistinctIdentifiers(sent)

\* Rows with equal identifiers were posted, and the whole batch, of several records,
\* has been delivered.
C1_Witness ==
    /\ Len(transformed) > Len(batch)
    /\ Len(batch) >= 2
    /\ sent = batch

\* The value is a string that is not empty.
NonEmptyString(v) == v # Null /\ v # Undefined /\ v # <<>>

\* C2: every record of the batch passed to upsertTransactions, and every record
\* that reaches storage, has a non-empty date and a non-empty narration.
C2_RequiredFieldsPresent ==
    /\ \A k \in 1..Len(batch) :
          NonEmptyString(batch[k].date) /\ NonEmptyString(batch[k].narration)
    /\ \A k \in 1..Len(sent) :
          NonEmptyString(sent[k].date) /\ NonEmptyString(sent[k].narration)
    /\ \A k \in 1..Len(db) :
          NonEmptyString(db[k].date) /\ NonEmptyString(db[k].narration)

\* A request with more rows than records built from them has delivered its batch.
C2_Witness ==
    /\ nMapped > Len(transformed)
    /\ sent # <<>>
    /\ sent = batch

\* C3: after any sequence of upload requests storage holds at most one record per
\* transaction identifier.
C3_AtMostOnePerIdentifier == DistinctIdentifiers(db)

\* C4: storage is called only after every row was transformed and removeDuplicates
\* has run on all records built (every identifier built is in the batch, once), it
\* is handed the batch from its start, and the records of the batch stand in the
\* relative order of the parsed rows they were built from.
C4_DeduplicatedBeforeStorageInOrder ==
    (pc = "upserting" \/ sent # <<>>) =>
        /\ nMapped = Len(req.transactions)
        /\ IdsOf(transformed) = IdsOf(batch)
        /\ Cardinality(IdsOf(batch)) = Len(batch)
        /\ Len(sent) <= Len(batch)
        /\ \A p \in 1..Len(sent) : sent[p] = batch[p]
        /\ \E f \in [1..Len(batch) -> 1..Len(req.transactions)] :
              /\ \A p \in 1..(Len(batch) - 1) : f[p] < f[p + 1]
              /\ \A p \in 1..Len(batch) :
                    TransformRow(req.transactions[f[p]], req.mapping) = <<batch[p]>>

\* Storage has received several records of a request in which a row was dropped or
\* found to be a duplicate.
C4_Witness ==
    /\ Len(sent) >= 2
    /\ nMapped > Len(batch)

\* Some entry of the mapping names date and some entry names narration.
MapsDateAndNarration(m) ==
    /\ \E k \in 1..Len(m) : m[k][2] = "date"
    /\ \E k \in 1..Len(m) : m[k][2] = "narration"

\* C5: an upload whose mapping does not map a column to date and a column to
\* narration is blocked: the page sends no request for it, and the handler given
\* such a request transforms no row, passes nothing to storage and answers 400.
C5_UnmappedUploadBlocked ==
    /\ req.via = "page" => MapsDateAndNarration(req.mapping)
    /\ (req # NoRequest /\ req.mappingIsObject /\ ~MapsDateAndNarration(req.mapping)) =>
          /\ pc \in {"posted", "responded"}
          /\ nMapped = 0
          /\ transformed = <<>>
          /\ batch = <<>>
          /\ sent = <<>>
          /\ pc = "responded" => resp.status = 400

\* The handler has answered a request that carries a row and a mapping with entries
\* but without both required columns.
C5_Witness ==
    /\ pc = "responded"
    /\ req.transactionsIsArray /\ req.transactions # <<>>
    /\ req.mappingIsObject /\ req.mapping # <<>>
    /\ ~MapsDateAndNarration(req.mapping)
    /\ resp.status = 400

\* C10: when upsertTransactions returns an error the handler answers 500 with the
\* storage error in the body (as details, and as message when it has one), and
\* answers neither success nor an uploaded count.
C10_StorageErrorIsTerminal ==
    (pc = "responded" /\ UpsertReturned /\ lastError.isError) =>
        /\ resp.status = 500
        /\ ~resp.success
        /\ resp.uploaded = -1
        /\ resp.hasDetails /\ resp.details = lastError.message
        /\ lastError.message # "" => resp.message = lastError.message

\* upsertTransactions has returned an error with a message after some chunk was
\* stored.
C10_Witness ==
    /\ pc = "responded"
    /\ UpsertReturned
    /\ lastError.isError /\ lastError.message # ""
    /\ insertedIds # <<>>

\* The last n records of the table.
LastStored(n) == SubSeq(db, Len(db) - n + 1, Len(db))

\* C11: when upsertTransactions has returned, its error is null exactly if no chunk
\* insert failed; then the ids returned cover the batch and every record of the
\* batch is stored.  An insert that failed leaves the error set, also when a later
\* chunk is stored.
C11_AllStoredOrErrorReported ==
    UpsertReturned =>
        /\ sent = batch
        /\ lastError.isError <=> Len(insertedIds) < Len(sent)
        /\ ~lastError.isError =>
              /\ Len(insertedIds) = Len(batch)
              /\ Len(db) >= Len(batch)
              /\ LastStored(Len(batch)) = batch
              /\ \A k \in 1..Len(batch) : insertedIds[k] = Len(db) - Len(batch) + k

\* upsertTransactions has returned an error although the last record of the batch
\* was stored after an earlier chunk had failed.
C11_Witness ==
    /\ UpsertReturned
    /\ lastError.isError
    /\ insertedIds # <<>>
    /\ Len(insertedIds) < Len(batch)
    /\ db[Len(db)] = batch[Len(batch)]

\* Rows of the request for which the map callback returns a record.
SurvivingRows ==
    {k \in 1..Len(req.transactions) : TransformRow(req.transactions[k], req.mapping) # <<>>}

\* C12: in a response with status 200, uploaded is the number of records passed to
\* storage, total the number of rows that survived the validation of the record,
\* duplicates is total - uploaded, and 1 <= uploaded <= total.
C12_SuccessCounts ==
    (pc = "responded" /\ resp.status = 200) =>
        /\ resp.success
        /\ resp.uploaded = Len(sent)
        /\ resp.total = Cardinality(SurvivingRows)
        /\ resp.duplicates = resp.total - resp.uploaded
        /\ 1 <= resp.uploaded
        /\ resp.uploaded <= resp.total

\* A request with a dropped row and a duplicate has been answered with success.
C12_Witness ==
    /\ pc = "responded" /\ resp.status = 200
    /\ resp.duplicates >= 1
    /\ nMapped > resp.total

----------------------------------------------------------------------------
(* Properties of the records the map callback builds                       *)

\* C13: every record the handler builds for storage has withdrawal_amt >= 0 and
\* deposit_amt >= 0, whatever the cells of the row.
C13_AmountsNonNegative ==
    (step = "transformed" /\ tOut # <<>>) =>
        /\ tOut[1].withdrawal_amt # <<>> /\ tOut[1].withdrawal_amt[1] >= 0
        /\ tOut[1].deposit_amt # <<>> /\ tOut[1].deposit_amt[1] >= 0

LeapYear(y) == (y % 4 = 0 /\ y % 100 # 0) \/ y % 400 = 0

DaysInMonth(y, m) ==
    IF m = 2 THEN (IF LeapYear(y) THEN 29 ELSE 28)
    ELSE IF m \in {4, 6, 9, 11} THEN 30 ELSE 31

\* s is YYYY-MM-DD with a month in 1..12 and a day the month has.
IsCalendarDate(s) ==
    /\ Len(s) = 10
    /\ \A k \in {1, 2, 3, 4, 6, 7, 9, 10} : IsDigit(s[k])
    /\ s[5] = "-" /\ s[8] = "-"
    /\ LET y == ParseInt(SubSeq(s, 1, 4))
           m == ParseInt(SubSeq(s, 6, 7))
           d == ParseInt(SubSeq(s, 9, 10))
       IN  m \in 1..12 /\ d >= 1 /\ d <= DaysInMonth(y, m)

\* C14: every record the handler builds for storage has a date that is a canonical
\* YYYY-MM-DD string of a real calendar date.
C14_DateIsCalendarDate ==
    (step = "transformed" /\ tOut # <<>>) => IsCalendarDate(tOut[1].date)

----------------------------------------------------------------------------
(* Properties of the grouping functions                                    *)

IsGroup(x) == "isGroup" \in DOMAIN x

\* The transactions an output element stands for.
MembersOf(x) == IF IsGroup(x) THEN x.transactions ELSE <<x>>

\* Places of the output, as <<element, member>>, at which the transaction t stands.
PlacesOf(t) ==
    {pq \in UNION {{<<p, q>> : q \in 1..Len(MembersOf(gOut[p]))} : p \in 1..Len(gOut)} :
        MembersOf(gOut[pq[1]])[pq[2]] = t}

\* C15: groupByNarration puts every input transaction in exactly one output
\* element, standalone or as a member of one group, and the output holds nothing
\* else.
C15_NarrationGroupingPartitions ==
    step = "byNarration" =>
        /\ \A k \in 1..Len(gIn) : Cardinality(PlacesOf(gIn[k])) = 1
        /\ \A p \in 1..Len(gOut) : \A q \in 1..Len(MembersOf(gOut[p])) :
               \E k \in 1..Len(gIn) : gIn[k] = MembersOf(gOut[p])[q]
        /\ \A p \in 1..Len(gOut) : IsGroup(gOut[p]) => Len(gOut[p].transactions) >= 2

\* groupByNarration has returned a group next to a standalone transaction.
C15_Witness ==
    /\ step = "byNarration"
    /\ Len(gIn) >= 3
    /\ \E p, q \in 1..Len(gOut) : IsGroup(gOut[p]) /\ ~IsGroup(gOut[q])

RECURSIVE SumSeq(_)
SumSeq(ns) == IF ns = <<>> THEN 0 ELSE Head(ns) + SumSeq(Tail(ns))

\* C16: the withdrawal_amt of the outputs of groupByDate add up to the sum of the
\* withdrawal_amt of the input transactions, and likewise the deposit_amt.
C16_DateGroupingConservesAmounts ==
    step = "byDate" =>
        /\ SumSeq([p \in 1..Len(gOut) |-> gOut[p].withdrawal_amt])
               = SumSeq([k \in 1..Len(gIn) |-> gIn[k].withdrawal_amt])
        /\ SumSeq([p \in 1..Len(gOut) |-> gOut[p].deposit_amt])
               = SumSeq([k \in 1..Len(gIn) |-> gIn[k].deposit_amt])

\* groupByDate has returned a group of several members with withdrawals and more
\* than one group.
C16_Witness ==
    /\ step = "byDate"
    /\ Len(gOut) >= 2
    /\ \E p \in 1..Len(gOut) :
          /\ gOut[p].count >= 2
          /\ \A q \in 1..Len(gOut[p].transactions) : gOut[p].transactions[q].withdrawal_amt > 0

\* The bucket of a transaction: its date, or "unknown" when it has none.
BucketOf(t) ==
    IF t.date = <<>> \/ t.date = Null \/ t.date = Undefined
    THEN <<"u", "n", "k", "n", "o", "w", "n">> ELSE t.date

\* C17: groupByDate returns one GroupedTransaction per distinct date of the input,
\* the transactions without a date sharing the bucket "unknown"; its members are
\* the input transactions of that date in input order, its count their number, and
\* its narration "<count> transaction" or "<count> transactions".
C17_OneGroupPerDate ==
    step = "byDate" =>
        /\ \A k \in 1..Len(gIn) :
               Cardinality({p \in 1..Len(gOut) : gOut[p].date = BucketOf(gIn[k])}) = 1
        /\ \A p \in 1..Len(gOut) :
               /\ IsGroup(gOut[p])
               /\ gOut[p].transactions # <<>>
               /\ gOut[p].transactions = SelectSeq(gIn, LAMBDA t : BucketOf(t) = gOut[p].date)
               /\ gOut[p].count = Len(gOut[p].transactions)
               /\ gOut[p].narration =
                      NatDigits(gOut[p].count)
                          \o <<" ", "t", "r", "a", "n", "s", "a", "c", "t", "i", "o", "n">>
                          \o (IF gOut[p].count = 1 THEN <<>> ELSE <<"s">>)

\* groupByDate has returned the bucket "unknown" and a group of several members that
\* were not neighbours in the input.
C17_Witness ==
    /\ step = "byDate"
    /\ \E p \in 1..Len(gOut) : gOut[p].date = <<"u", "n", "k", "n", "o", "w", "n">>
    /\ \E p \in 1..Len(gOut) : gOut[p].count >= 2
    /\ Len(gIn) >= 3
    /\ BucketOf(gIn[1]) = BucketOf(gIn[3]) /\ BucketOf(gIn[1]) # BucketOf(gIn[2])

\* Position of the transaction t in the input.
InputIndex(t) == CHOOSE k \in 1..Len(gIn) : gIn[k] = t

\* levenshtein(norm(s), norm(t)) / length(longer) <= threshold, the quotient
\* compared by cross-multiplication.
CloseNarrations(s, t, threshold) ==
    LET a == normalizeNarration(s.narration)
        b == normalizeNarration(t.narration)
        longest == IF Len(a) > Len(b) THEN Len(a) ELSE Len(b)
    IN  levenshteinDistance(a, b) * threshold[2] <= threshold[1] * longest

\* The transactions of the clusters whose seed stands before position i of the input.
ProcessedBefore(i) ==
    UNION {{MembersOf(gOut[p])[q] : q \in 1..Len(MembersOf(gOut[p]))} :
              p \in {r \in 1..Len(gOut) : InputIndex(MembersOf(gOut[r])[1]) < i}}

\* C18: every cluster of groupByNarration is its seed, the first transaction of the
\* input not processed before, followed in input order by exactly the other
\* transactions not processed before whose normalized narration is within the
\* threshold of the seed's.
C18_GreedySeedClusters ==
    step = "byNarration" =>
        \A p \in 1..Len(gOut) :
            LET members == MembersOf(gOut[p])
                seed == members[1]
                open == {gIn[k] : k \in 1..Len(gIn)} \ ProcessedBefore(InputIndex(seed))
            IN  /\ \A t \in open : InputIndex(seed) <= InputIndex(t)
                /\ {members[q] : q \in 2..Len(members)}
                       = {t \in open \ {seed} : CloseNarrations(seed, t, gThreshold)}
                /\ \A q \in 1..(Len(members) - 1) :
                       InputIndex(members[q]) < InputIndex(members[q + 1])

\* C19: in date and in narration grouping the closing_balance of a
\* GroupedTransaction is the closing_balance of its last member, a balance of 0
\* included.
C19_ClosingBalanceOfLastMember ==
    step \in {"byDate", "byNarration"} =>
        \A p \in 1..Len(gOut) :
            IsGroup(gOut[p]) =>
                gOut[p].closing_balance
                    = gOut[p].transactions[Len(gOut[p].transactions)].closing_balance

\* The day the date names, counted in days; <<>> when it names none.
CalendarValue(date) ==
    IF IsCalendarDate(date)
    THEN <<372 * ParseInt(SubSeq(date, 1, 4)) + 31 * ParseInt(SubSeq(date, 6, 7))
             + ParseInt(SubSeq(date, 9, 10))>>
    ELSE <<>>

\* C20: the result of groupByDate and of groupByNarration is sorted by date
\* descending: of two output elements whose dates have a calendar value the earlier
\* one has no smaller date, also in a result that holds the bucket "unknown".
C20_SortedByDateDescending ==
    step \in {"byDate", "byNarration"} =>
        \A p, q \in 1..Len(gOut) :
            (p < q /\ CalendarValue(gOut[p].date) # <<>> /\ CalendarValue(gOut[q].date) # <<>>)
                => CalendarValue(gOut[p].date)[1] >= CalendarValue(gOut[q].date)[1]

----------------------------------------------------------------------------
(* Properties of normalizeDate                                             *)

\* C21: normalizeDate is idempotent on its own output: whenever normalizeDate(x) is
\* not null, normalizeDate(normalizeDate(x)) = normalizeDate(x).
C21_NormalizeDateIdempotent ==
    step = "normalized twice" => fOut2 = fOut

----------------------------------------------------------------------------
(* Properties of the header stripper                                       *)

LinesOf(text) == Split(text, "\n")

ContainsAny(line, words) == \E w \in words : Includes(ToLowerCase(line), w)

\* The line contains "date" together with a narration, amount-type or balance keyword.
KeywordHeader(line) ==
    /\ ContainsAny(line, {WDate})
    /\ ContainsAny(line, {WNarration, WDescription, WParticulars, WWithdrawal, WDeposit,
                          WDebit, WCredit, WAmount, WBalance})

\* Line k is followed by a data row: a line with a date and at least three fields.
DataRowFollows(lines, k) ==
    \E d \in (k + 1)..Len(lines) :
        /\ PatternMatches(lines[d], 1..2, 1..2, 2..4) # {}
        /\ Len(Split(lines[d], ",")) >= 3

\* The output is the input from line k on: its first line is line k and the later
\* lines are unchanged.
StartsAtLine(k) ==
    LinesOf(fOut) = SubSeq(LinesOf(fIn), k, Len(LinesOf(fIn)))

\* C22 as stated: whenever line k has the header keywords and a data row follows,
\* the output is the text from line k on.
C22_StartsAtAnyKeywordHeader ==
    step = "stripped" =>
        \A k \in 1..Len(LinesOf(fIn)) :
            (KeywordHeader(LinesOf(fIn)[k]) /\ DataRowFollows(LinesOf(fIn), k))
                => StartsAtLine(k)

\* C22: whenever line k is the first line with the header keywords and a data row
\* follows it, the output is the text from line k on.
C22_StartsAtFirstKeywordHeader ==
    step = "stripped" =>
        \A k \in 1..Len(LinesOf(fIn)) :
            (/\ KeywordHeader(LinesOf(fIn)[k])
             /\ \A j \in 1..(k - 1) : ~KeywordHeader(LinesOf(fIn)[j])
             /\ DataRowFollows(LinesOf(fIn), k))
                => StartsAtLine(k)

\* A preamble line was removed in front of the header, which a data row follows.
C22_Witness ==
    /\ step = "stripped"
    /\ \E k \in 2..Len(LinesOf(fIn)) :
           /\ KeywordHeader(LinesOf(fIn)[k])
           /\ \A j \in 1..(k - 1) : ~KeywordHeader(LinesOf(fIn)[j])
           /\ DataRowFollows(LinesOf(fIn), k)
           /\ StartsAtLine(k)

----------------------------------------------------------------------------
(* Properties of the fixed deposit extractor                               *)

\* The candidate records of the call, in text order: one per section with a number,
\* or one per number of a text without sections, under any inferred status.
CandidateLists ==
    IF fIn.sections # <<>> THEN FdsOfSections(fIn.sections)
    ELSE IF fIn.numbers # <<>> THEN {FdsOfNumbers(fIn.numbers, fIn.amounts)}
    ELSE {<<>>}

\* r is the first record of cands with its fd_number.
IsFirstCandidate(r, cands) ==
    \E i \in 1..Len(cands) :
        /\ cands[i] = r
        /\ \A j \in 1..(i - 1) : cands[j].fd_number # r.fd_number

\* C23: extractFixedDeposits returns only records with a non-empty fd_number, the
\* returned fd_numbers are pairwise distinct, and of the candidate records that share
\* an fd_number the first in text order is the one returned.
C23_FdNumbersDistinctFirstWins ==
    step = "extracted" =>
        /\ \A i \in 1..Len(fOut) :
               /\ fOut[i].fd_number \notin {<<>>, Null, Undefined}
               /\ \A j \in 1..Len(fOut) : fOut[i].fd_number = fOut[j].fd_number => i = j
        /\ \E cands \in CandidateLists :
               /\ \A i \in 1..Len(fOut) : IsFirstCandidate(fOut[i], cands)
               /\ \A c \in 1..Len(cands) :
                      \E i \in 1..Len(fOut) : fOut[i].fd_number = cands[c].fd_number

\* Two sections gave different records with the same fd_number, a section gave no
\* number, and one record was returned.
C23_Witness ==
    /\ step = "extracted"
    /\ Len(fIn.sections) = 3
    /\ \E cands \in CandidateLists :
           /\ Len(cands) = 2
           /\ cands[1].fd_number = cands[2].fd_number
           /\ cands[1] # cands[2]
           /\ fOut = <<cands[1]>>

----------------------------------------------------------------------------
(* Properties of the column type inference                                 *)

\* C24: detectColumnTypes uses at most the first 10 rows: two row lists that agree
\* on their first 10 rows get the same column-to-suggestion mapping.
C24_SampleIsFirstTenRows ==
    (step = "detected both" /\ AgreeOnFirstRows(fIn[1], fIn[2], 10)) => fOut = fOut2

\* The two lists differ after the tenth row, where the one has a date and the other
\* an amount as the first value of a column without a keyword, and both got the same
\* suggestions, none of them for that column.
C24_Witness ==
    /\ step = "detected both"
    /\ Len(fIn[1]) > 10 /\ Len(fIn[2]) > 10
    /\ AgreeOnFirstRows(fIn[1], fIn[2], 10)
    /\ LET c == Len(fIn[1][11]) IN
           /\ LooksLikeDate(fIn[1][11][c][2])
           /\ LooksLikeAmount(fIn[2][11][c][2])
           /\ \A i \in 1..10 : fIn[1][i][c][2] = <<>>
           /\ \A k \in 1..Len(fOut) : fOut[k][1] # fIn[1][11][c][1]
    /\ fOut = fOut2
    /\ fOut # <<>>

\* The suggestion assigned to col, <<>> when there is none.
SuggestedFor(suggestions, col) ==
    IF \E k \in 1..Len(suggestions) : suggestions[k][1] = col
    THEN suggestions[CHOOSE k \in 1..Len(suggestions) : suggestions[k][1] = col][2]
    ELSE <<>>

\* C30: detectColumnTypes suggests value_date for a column whose name contains both
\* "value" and "date".
C30_ValueDateSuggested ==
    step = "detected" =>
        \A c \in 1..Len(fIn[1][1]) :
            LET col == fIn[1][1][c][1] IN
                (Includes(ToLowerCase(col), <<"v", "a", "l", "u", "e">>) /\ Includes(ToLowerCase(col), <<"d", "a", "t", "e">>))
                    => SuggestedFor(fOut, col) = <<"v", "a", "l", "u", "e", "_", "d", "a", "t", "e">>

----------------------------------------------------------------------------
(* Properties of upsertTransactions                                        *)

\* The records the table stored for the current call: the last ones of the table,
\* as many as ids were returned.
StoredByCall == SubSeq(db, Len(db) - Len(insertedIds) + 1, Len(db))

\* xs consists of whole chunks of ts, in order.
RECURSIVE IsChunksOf(_, _, _)
IsChunksOf(xs, ts, k) ==
    IF k > NumChunks(ts) THEN xs = <<>>
    ELSE \/ IsChunksOf(xs, ts, k + 1)
         \/ /\ Len(xs) >= Len(Chunk(ts, k))
            /\ SubSeq(xs, 1, Len(Chunk(ts, k))) = Chunk(ts, k)
            /\ IsChunksOf(SubSeq(xs, Len(Chunk(ts, k)) + 1, Len(xs)), ts, k + 1)

----------------------------------------------------------------------------
(* Properties of tag editing                                               *)

\* The tags with t added once: unchanged when t is among them, else t appended.
AddOnce(tags, t) ==
    IF \E i \in 1..Len(tags) : tags[i] = t THEN tags ELSE tags \o <<t>>

\* C26: after handleBulkAddTag completes, for every selected transaction the stored
\* tags equal the tags stored before the operation plus the new tag, added once,
\* under any interleaving with single-transaction tag edits and page changes.
C26_BulkAddPreservesTags ==
    bulk.state = "done" =>
        \A id \in bulk.selected : bulk.after[id] = AddOnce(bulk.before[id], bulk.tag)

----------------------------------------------------------------------------
(* Properties of file selection                                            *)

\* The rows and errors a file can put into the state.
RowsOf(file) == IF file.rejects THEN <<>> ELSE file.data

ErrorsOf(file) ==
    IF file.rejects THEN <<ParseError(RejectMessage, <<>>)>>
    ELSE IF IsNumbers(file) THEN <<ParseError(NumbersMessage, <<>>)>>
    ELSE file.errors

\* C27: the parsed rows and parse errors held in state always belong to the file
\* selected last: the result of an earlier parse never overwrites them, whatever
\* the order in which the parses complete.
C27_RowsBelongToSelectedFile ==
    selectedFile # <<>> =>
        /\ parsedData \in {<<>>, RowsOf(selectedFile[1])}
        /\ parseErrors \in {<<>>, ErrorsOf(selectedFile[1])}

----------------------------------------------------------------------------
(* Properties relating areTransactionsDuplicate and getTransactionIdentifier *)

\* C28: for two transactions whose ref_no are both non-blank, or both blank (absent,
\* empty or whitespace-only), areTransactionsDuplicate(a, b) holds exactly when
\* getTransactionIdentifier(a) = getTransactionIdentifier(b).
C28_DuplicateIffSameIdentifier ==
    step = "compared" =>
        ((NonBlankRef(txns[1]) <=> NonBlankRef(txns[2])) => (dup <=> ids[1] = ids[2]))

----------------------------------------------------------------------------
(* Properties of groupByNarration on identical narrations                  *)

\* C29: groupByNarration puts two transactions with identical narration strings and
\* distinct ids into the same output group, for every input list and every
\* threshold >= 0, narrations that normalize to the empty string included.
C29_IdenticalNarrationsGrouped ==
    step = "byNarration" =>
        \A i, j \in 1..Len(gIn) :
            (gIn[i].id # gIn[j].id /\ gIn[i].narration = gIn[j].narration)
                => \E p \in 1..Len(gOut) :
                       /\ \E q \in 1..Len(MembersOf(gOut[p])) : MembersOf(gOut[p])[q] = gIn[i]
                       /\ \E q \in 1..Len(MembersOf(gOut[p])) : MembersOf(gOut[p])[q] = gIn[j]

====
